---- MODULE Spec2Model ----
(***************************************************************************)
(* Position ledger, manual trades and monitoring cycle of the spot/futures *)
(* arbitrage engine (src/src/arbitrage/engine.py) together with the spread *)
(* calculator it calls (src/src/arbitrage/calculator.py).                  *)
(*                                                                         *)
(* Coin quantities, prices and USDT amounts are integers.  The order books *)
(* the model draws are flat (every level of one side has the same price),  *)
(* so every weighted price and every cost basis the code obtains by a      *)
(* division is an exact integer and \div computes what the code computes.  *)
(* NULL and "no row" are the empty sequence, a present value v is <<v>>.   *)
(***************************************************************************)
EXTENDS Integers, Sequences, FiniteSets, TLC

VARIABLES
    positions,      \* table positions: position_id -> row
    adjustments,    \* table position_adjustments, in insertion order
    orders,         \* orders the exchange gateway has acknowledged: <<side, symbol>> -> count
    frame,          \* per thread: where it is in a manual trade / exit / entry
    requests,       \* number of operator requests made so far
    config,         \* the engine's configuration (TRADING_PARAMS, TRADING_PAIRS)
    running,        \* ArbitrageEngine.running
    monitor,        \* the monitoring thread: position in _monitoring_loop and locals
    cycles,         \* number of monitoring cycles begun
    calc            \* direct calls of SpreadCalculator methods: the last call, and its repeat

vars == <<positions, adjustments, orders, frame, requests, config, running, monitor, cycles,
          calc>>

(* ------------------------------- bounds ------------------------------- *)

\* Largest coin quantity of a position stored at start-up, and largest
\* volume_coins an operator passes to a manual trade.
MaxCoins == 2
\* Number of operator requests (manual exits and entries) in a run.
MaxRequests == 2
\* Number of monitoring cycles in a run.
MaxCycles == 2
\* Largest position_coins passed to should_close_position.
MaxCalcCoins == 10
\* Longest ask list passed to calculate_weighted_spot_ask.
MaxLevels == 3
\* Largest target_volume_usdt passed to it, in lots of 20 USDT.
MaxTargetLots == 6

(* ------------------------------- values ------------------------------- *)

NULL == <<>>
Some(v) == <<v>>

\* Threads that execute engine code: two operator request handlers and the
\* monitoring thread.
Operators == {"op1", "op2"}
MonitorThread == "monitor"
Threads == Operators \cup {MonitorThread}

\* Position ids of the rows the store may hold at start-up.
PositionIds == {"p1", "p2"}
\* What uuid.uuid4() returns: an id no stored row has.
FreshId == "u1"

SymbolOf(pid) == IF pid = "p1" THEN "BTC/USDT" ELSE "ETH/USDT"

(* ------------------------ SpreadCalculator ----------------------------- *)

\* An order book level is <<price, coin_volume>>; a book is
\* [asks |-> levels, bids |-> levels].
ZeroWalk == [price |-> 0, coins |-> 0, usdt |-> 0]

\* The (weighted_avg_price, actual_volume_coins, actual_volume_usdt) tuple the
\* four walkers return once their loop has ended.
WalkResult(total_cost, total_coins) ==
    IF total_coins = 0
    THEN ZeroWalk
    ELSE [price |-> total_cost \div total_coins, coins |-> total_coins, usdt |-> total_cost]

RECURSIVE WalkNotionalLoop_NoPartialFill(_, _, _, _)
\* The notional walk with a bare break in place of the partial-level branch.
WalkNotionalLoop_NoPartialFill(levels, target_volume_usdt, total_cost, total_coins) ==
    IF levels = <<>>
    THEN WalkResult(total_cost, total_coins)
    ELSE LET price == levels[1][1]
             coin_volume == levels[1][2]
             usdt_volume == price * coin_volume
         IN  IF total_cost + usdt_volume <= target_volume_usdt
             THEN WalkNotionalLoop_NoPartialFill(Tail(levels), target_volume_usdt,
                                                 total_cost + usdt_volume,
                                                 total_coins + coin_volume)
             ELSE WalkResult(total_cost, total_coins)

RECURSIVE WalkNotionalLoop_ShortfallIsZero(_, _, _, _)
\* The notional walk returning the zero tuple when the levels run out before
\* the target is reached.
WalkNotionalLoop_ShortfallIsZero(levels, target_volume_usdt, total_cost, total_coins) ==
    IF levels = <<>>
    THEN IF total_cost < target_volume_usdt THEN ZeroWalk ELSE WalkResult(total_cost, total_coins)
    ELSE LET price == levels[1][1]
             coin_volume == levels[1][2]
             usdt_volume == price * coin_volume
         IN  IF total_cost + usdt_volume <= target_volume_usdt
             THEN WalkNotionalLoop_ShortfallIsZero(Tail(levels), target_volume_usdt,
                                                   total_cost + usdt_volume,
                                                   total_coins + coin_volume)
             ELSE LET remaining_usdt == target_volume_usdt - total_cost
                      remaining_coins == remaining_usdt \div price
                  IN  WalkResult(total_cost + remaining_usdt, total_coins + remaining_coins)

RECURSIVE WalkNotionalLoop(_, _, _, _)
\* The for loop of calculate_weighted_spot_ask and the return after it.
WalkNotionalLoop(levels, target_volume_usdt, total_cost, total_coins) ==
    IF levels = <<>>
    THEN WalkResult(total_cost, total_coins)
    ELSE LET price == levels[1][1]
             coin_volume == levels[1][2]
             usdt_volume == price * coin_volume
         IN  IF total_cost + usdt_volume <= target_volume_usdt
             THEN WalkNotionalLoop(Tail(levels), target_volume_usdt,
                                   total_cost + usdt_volume, total_coins + coin_volume)
             ELSE LET remaining_usdt == target_volume_usdt - total_cost
                      remaining_coins == remaining_usdt \div price
                  IN  WalkResult(total_cost + remaining_usdt, total_coins + remaining_coins)

calculate_weighted_spot_ask(asks, target_volume_usdt) ==
    IF asks = <<>> THEN ZeroWalk ELSE WalkNotionalLoop(asks, target_volume_usdt, 0, 0)

RECURSIVE WalkQuantityLoop_NoPartialFill(_, _, _, _)
RECURSIVE WalkQuantityLoop(_, _, _, _)
\* The quantity walk with a bare break in place of the partial-level branch.
WalkQuantityLoop_NoPartialFill(levels, target_coins, total_cost, total_coins) ==
    IF levels = <<>>
    THEN WalkResult(total_cost, total_coins)
    ELSE LET price == levels[1][1]
             coin_volume == levels[1][2]
         IN  IF total_coins + coin_volume <= target_coins
             THEN WalkQuantityLoop_NoPartialFill(Tail(levels), target_coins,
                                                 total_cost + price * coin_volume,
                                                 total_coins + coin_volume)
             ELSE WalkResult(total_cost, total_coins)

WalkQuantityLoop(levels, target_coins, total_cost, total_coins) ==
    IF levels = <<>>
    THEN WalkResult(total_cost, total_coins)
    ELSE LET price == levels[1][1]
             coin_volume == levels[1][2]
         IN  IF total_coins + coin_volume <= target_coins
             THEN WalkQuantityLoop(Tail(levels), target_coins,
                                   total_cost + price * coin_volume, total_coins + coin_volume)
             ELSE LET remaining_coins == target_coins - total_coins
                      remaining_cost == remaining_coins * price
                  IN  WalkResult(total_cost + remaining_cost, total_coins + remaining_coins)

calculate_weighted_futures_bid(bids, target_coins) ==
    IF bids = <<>> THEN ZeroWalk ELSE WalkQuantityLoop(bids, target_coins, 0, 0)

calculate_weighted_spot_bid(bids, target_coins) ==
    IF bids = <<>> THEN ZeroWalk ELSE WalkQuantityLoop(bids, target_coins, 0, 0)

calculate_weighted_futures_ask(asks, target_coins) ==
    IF asks = <<>> THEN ZeroWalk ELSE WalkQuantityLoop(asks, target_coins, 0, 0)

Min(a, b) == IF a <= b THEN a ELSE b

\* calculate_entry_spread raises IndexError on an empty side of either book
\* (the [0][0] reads) and ZeroDivisionError when a weighted price it divides
\* by is 0.  target_volume_usdt is NULL for the default (self.lot_min).
EntryTarget(cfg, target_volume_usdt) ==
    IF target_volume_usdt = NULL THEN cfg.lot_min ELSE target_volume_usdt[1]

calculate_entry_spread_raises(cfg, spot_order_book, futures_order_book, target_volume_usdt) ==
    \/ spot_order_book.asks = <<>>
    \/ spot_order_book.bids = <<>>
    \/ futures_order_book.asks = <<>>
    \/ futures_order_book.bids = <<>>
    \/ LET spot == calculate_weighted_spot_ask(spot_order_book.asks,
                                               EntryTarget(cfg, target_volume_usdt))
       IN  \/ spot.price = 0
           \/ calculate_weighted_futures_ask(futures_order_book.asks, spot.coins).price = 0

\* calculate_entry_spread with the threshold test written as >=.
calculate_entry_spread_AtThreshold(cfg, spot_order_book, futures_order_book, target_volume_usdt) ==
    LET spot == calculate_weighted_spot_ask(spot_order_book.asks,
                                            EntryTarget(cfg, target_volume_usdt))
        futures_bid == calculate_weighted_futures_bid(futures_order_book.bids, spot.coins)
        futures_ask == calculate_weighted_futures_ask(futures_order_book.asks, spot.coins)
        spot_bid == calculate_weighted_spot_bid(spot_order_book.bids, spot.coins)
        entry_spread == ((futures_bid.price - spot.price) * 100) \div spot.price
        exit_spread == ((spot_bid.price - futures_ask.price) * 100) \div futures_ask.price
    IN  [entry_spread |-> entry_spread,
         exit_spread |-> exit_spread,
         spot_best_ask |-> spot_order_book.asks[1][1],
         spot_best_bid |-> spot_order_book.bids[1][1],
         futures_best_ask |-> futures_order_book.asks[1][1],
         futures_best_bid |-> futures_order_book.bids[1][1],
         spot_weighted_ask |-> spot.price,
         futures_weighted_bid |-> futures_bid.price,
         spot_weighted_bid |-> spot_bid.price,
         futures_weighted_ask |-> futures_ask.price,
         tradable_volume_coins |-> spot.coins,
         tradable_volume_usdt |-> spot.usdt,
         trade_opportunity |-> entry_spread >= cfg.spread_in]

calculate_entry_spread(cfg, spot_order_book, futures_order_book, target_volume_usdt) ==
    LET spot == calculate_weighted_spot_ask(spot_order_book.asks,
                                            EntryTarget(cfg, target_volume_usdt))
        futures_bid == calculate_weighted_futures_bid(futures_order_book.bids, spot.coins)
        futures_ask == calculate_weighted_futures_ask(futures_order_book.asks, spot.coins)
        spot_bid == calculate_weighted_spot_bid(spot_order_book.bids, spot.coins)
        entry_spread == ((futures_bid.price - spot.price) * 100) \div spot.price
        exit_spread == ((spot_bid.price - futures_ask.price) * 100) \div futures_ask.price
    IN  [entry_spread |-> entry_spread,
         exit_spread |-> exit_spread,
         spot_best_ask |-> spot_order_book.asks[1][1],
         spot_best_bid |-> spot_order_book.bids[1][1],
         futures_best_ask |-> futures_order_book.asks[1][1],
         futures_best_bid |-> futures_order_book.bids[1][1],
         spot_weighted_ask |-> spot.price,
         futures_weighted_bid |-> futures_bid.price,
         spot_weighted_bid |-> spot_bid.price,
         futures_weighted_ask |-> futures_ask.price,
         tradable_volume_coins |-> spot.coins,
         tradable_volume_usdt |-> spot.usdt,
         trade_opportunity |-> entry_spread > cfg.spread_in]

\* calculate_exit_spread raises ZeroDivisionError when the futures-ask walk
\* fills nothing (its weighted price is then 0.0).
calculate_exit_spread_raises(spot_order_book, futures_order_book, position_coins) ==
    calculate_weighted_futures_ask(futures_order_book.asks, position_coins).price = 0

\* calculate_exit_spread with the threshold test written as >=.
calculate_exit_spread_AtThreshold(cfg, spot_order_book, futures_order_book, position_coins) ==
    LET spot == calculate_weighted_spot_bid(spot_order_book.bids, position_coins)
        futures == calculate_weighted_futures_ask(futures_order_book.asks, position_coins)
        exit_spread == ((spot.price - futures.price) * 100) \div futures.price
    IN  [exit_spread |-> exit_spread,
         spot_weighted_bid |-> spot.price,
         futures_weighted_ask |-> futures.price,
         tradable_volume_coins |-> Min(spot.coins, futures.coins),
         spot_volume_usdt |-> spot.usdt,
         futures_volume_usdt |-> futures.usdt,
         close_opportunity |-> exit_spread >= cfg.spread_out]

\* calculate_exit_spread reporting the spot walk's quantity as tradable.
calculate_exit_spread_SpotDepthOnly(cfg, spot_order_book, futures_order_book, position_coins) ==
    LET spot == calculate_weighted_spot_bid(spot_order_book.bids, position_coins)
        futures == calculate_weighted_futures_ask(futures_order_book.asks, position_coins)
        exit_spread == ((spot.price - futures.price) * 100) \div futures.price
    IN  [exit_spread |-> exit_spread,
         spot_weighted_bid |-> spot.price,
         futures_weighted_ask |-> futures.price,
         tradable_volume_coins |-> spot.coins,
         spot_volume_usdt |-> spot.usdt,
         futures_volume_usdt |-> futures.usdt,
         close_opportunity |-> exit_spread > cfg.spread_out]

calculate_exit_spread(cfg, spot_order_book, futures_order_book, position_coins) ==
    LET spot == calculate_weighted_spot_bid(spot_order_book.bids, position_coins)
        futures == calculate_weighted_futures_ask(futures_order_book.asks, position_coins)
        exit_spread == ((spot.price - futures.price) * 100) \div futures.price
    IN  [exit_spread |-> exit_spread,
         spot_weighted_bid |-> spot.price,
         futures_weighted_ask |-> futures.price,
         tradable_volume_coins |-> Min(spot.coins, futures.coins),
         spot_volume_usdt |-> spot.usdt,
         futures_volume_usdt |-> futures.usdt,
         close_opportunity |-> exit_spread > cfg.spread_out]

\* should_close_position with the dust test written as <=.
should_close_position_EscalatesAtMinimum(cfg, position_id, position_coins, spot_order_book, futures_order_book, min_trade_amount) ==
    LET exit_data == calculate_exit_spread(cfg, spot_order_book, futures_order_book,
                                           position_coins)
        capped == Min(position_coins, exit_data.tradable_volume_coins)
        coins_to_close == IF position_coins - capped <= min_trade_amount
                          THEN position_coins ELSE capped
    IN  IF ~exit_data.close_opportunity
        THEN <<FALSE, 0, exit_data>>
        ELSE IF coins_to_close <= 0
             THEN <<FALSE, 0, exit_data>>
             ELSE <<TRUE, coins_to_close, exit_data>>

\* should_close_position without the test of coins_to_close <= 0.
should_close_position_NoSignCheck(cfg, position_id, position_coins, spot_order_book, futures_order_book, min_trade_amount) ==
    LET exit_data == calculate_exit_spread(cfg, spot_order_book, futures_order_book,
                                           position_coins)
        capped == Min(position_coins, exit_data.tradable_volume_coins)
        coins_to_close == IF position_coins - capped < min_trade_amount
                          THEN position_coins ELSE capped
    IN  IF ~exit_data.close_opportunity
        THEN <<FALSE, 0, exit_data>>
        ELSE <<TRUE, coins_to_close, exit_data>>

\* should_close_position returns (should_close, coins_to_close, exit_data);
\* it raises exactly when its calculate_exit_spread call raises.
should_close_position(cfg, position_id, position_coins, spot_order_book, futures_order_book, min_trade_amount) ==
    LET exit_data == calculate_exit_spread(cfg, spot_order_book, futures_order_book,
                                           position_coins)
        capped == Min(position_coins, exit_data.tradable_volume_coins)
        coins_to_close == IF position_coins - capped < min_trade_amount
                          THEN position_coins ELSE capped
    IN  IF ~exit_data.close_opportunity
        THEN <<FALSE, 0, exit_data>>
        ELSE IF coins_to_close <= 0
             THEN <<FALSE, 0, exit_data>>
             ELSE <<TRUE, coins_to_close, exit_data>>

\* Formal parameters (after self) of the calculator methods the engine calls;
\* a call that binds a different number of positional arguments raises
\* TypeError before the method body runs.
calculate_exit_spread_params == <<"spot_order_book", "futures_order_book", "position_coins">>
should_close_position_params ==
    <<"position_id", "position_coins", "spot_order_book", "futures_order_book",
      "min_trade_amount">>

CallRaisesTypeError(params, args) == Len(args) # Len(params)

\* store_spread_data builds its parameter tuple from these keys of
\* spread_data; a missing key raises KeyError, which the method re-raises
\* after rolling back.
store_spread_data_keys ==
    {"entry_spread", "exit_spread", "spot_best_ask", "spot_best_bid", "futures_best_ask",
     "futures_best_bid", "spot_weighted_ask", "futures_weighted_bid", "spot_weighted_bid",
     "futures_weighted_ask", "tradable_volume_coins", "tradable_volume_usdt",
     "trade_opportunity", "close_opportunity"}

store_spread_data_raises(spread_data) ==
    ~(store_spread_data_keys \subseteq DOMAIN spread_data)

(* --------------------------- market and store -------------------------- *)

\* Order books the exchange gateway may return.  Ask prices (the divisors of
\* the spread formulas and of the notional walk) are 10 or 20, so every
\* quotient is exact.
Book(ask_price, bid_price) ==
    [asks |-> << <<ask_price, 2>>, <<ask_price, 6>> >>,
     bids |-> << <<bid_price, 2>>, <<bid_price, 6>> >>]
EmptyBook == [asks |-> <<>>, bids |-> <<>>]
LowBook == Book(10, 9)
HighBook == Book(20, 12)
SpotBooks == {LowBook, HighBook}
FuturesBooks == {LowBook, HighBook, EmptyBook}

\* get_min_trade_amount results (a method of the consumed gateway interface
\* that the imported connector class does not define).
MinTradeAmounts == {0, 1}

\* Outcome of one order call on the exchange gateway: TRUE when the gateway
\* acknowledges the order, FALSE when the call raises.  The engine calls
\* execute_spot_buy, execute_futures_sell, execute_spot_sell and
\* execute_futures_buy on its connector; the connector class it imports
\* (src/src/exchange/connectors.py) defines none of them, so the outcomes are
\* those of the gateway interface the specification lists as consumed.
OrderOutcomes == BOOLEAN

Symbols == {SymbolOf(pid) : pid \in PositionIds}

\* TRADING_PARAMS and TRADING_PAIRS of the configuration.
Configs ==
    {[lot_min |-> 20, lot_max |-> 40, spread_in |-> 10, spread_out |-> 5,
      auto_trade |-> a, TRADING_PAIRS |-> <<"BTC/USDT", "ETH/USDT">>] : a \in BOOLEAN}

pair_config(cfg, symbol) ==
    {i \in 1..Len(cfg.TRADING_PAIRS) : cfg.TRADING_PAIRS[i] = symbol}

\* The row the INSERT of _execute_arbitrage_trade writes.
InsertedRow(symbol, spread_data) ==
    LET spot_volume_coins == spread_data.tradable_volume_coins
        spot_avg_price == spread_data.spot_weighted_ask
        futures_avg_price == spread_data.futures_weighted_bid
    IN  [status |-> "open",
         symbol |-> symbol,
         initial_entry_spread |-> spread_data.entry_spread,
         spot_volume_coins |-> spot_volume_coins,
         futures_volume_coins |-> spot_volume_coins,
         spot_volume_usdt |-> spot_volume_coins * spot_avg_price,
         futures_volume_usdt |-> spot_volume_coins * futures_avg_price,
         spot_avg_price |-> spot_avg_price,
         futures_avg_price |-> futures_avg_price,
         remaining_spot_coins |-> spot_volume_coins,
         remaining_futures_coins |-> spot_volume_coins,
         pnl_usdt |-> NULL]

\* The row the UPDATE of _execute_arbitrage_trade leaves.
IncreasedRow(row, spread_data) ==
    LET spot_volume_coins == spread_data.tradable_volume_coins
        spot_volume_usdt == spot_volume_coins * spread_data.spot_weighted_ask
        futures_volume_usdt == spot_volume_coins * spread_data.futures_weighted_bid
    IN  [row EXCEPT
            !.spot_volume_coins = @ + spot_volume_coins,
            !.futures_volume_coins = @ + spot_volume_coins,
            !.spot_volume_usdt = @ + spot_volume_usdt,
            !.futures_volume_usdt = @ + futures_volume_usdt,
            !.remaining_spot_coins = @ + spot_volume_coins,
            !.remaining_futures_coins = @ + spot_volume_coins]

COALESCE(v, d) == IF v = NULL THEN d ELSE v[1]

\* PnL of an exit, from the row read at the start of _execute_exit_trade.
\* The PnL of the spot leg alone.
ExitPnl_SpotLegOnly(position, coins_to_close, exit_data) ==
    LET spot_close_usdt == coins_to_close * exit_data.spot_weighted_bid
        initial_spot_cost ==
            (position.spot_volume_usdt \div position.spot_volume_coins) * coins_to_close
    IN  spot_close_usdt - initial_spot_cost

ExitPnl(position, coins_to_close, exit_data) ==
    LET spot_close_usdt == coins_to_close * exit_data.spot_weighted_bid
        futures_close_usdt == coins_to_close * exit_data.futures_weighted_ask
        initial_spot_cost ==
            (position.spot_volume_usdt \div position.spot_volume_coins) * coins_to_close
        initial_futures_value ==
            (position.futures_volume_usdt \div position.futures_volume_coins) * coins_to_close
    IN  (spot_close_usdt - initial_spot_cost) + (initial_futures_value - futures_close_usdt)

\* Variant of ExitStatus that closes only below zero; the closed/remaining
\* equivalence does not survive it.
ExitStatus_BelowZero(remaining_spot_coins) ==
    IF remaining_spot_coins < 0 THEN "closed" ELSE "partially_closed"

ExitStatus(remaining_spot_coins) ==
    IF remaining_spot_coins <= 0 THEN "closed" ELSE "partially_closed"

\* Variant of ExitUpdatedRow that writes pnl_usdt as an absolute value computed
\* from the row read earlier, the way the remaining coins are written; PnL
\* additivity does not survive it.
ExitUpdatedRow_AbsolutePnl(row, position, coins_to_close, pnl) ==
    [row EXCEPT
        !.status = IF position.remaining_spot_coins - coins_to_close <= 0
                   THEN "closed" ELSE "partially_closed",
        !.remaining_spot_coins = position.remaining_spot_coins - coins_to_close,
        !.remaining_futures_coins = position.remaining_futures_coins - coins_to_close,
        !.pnl_usdt = Some(COALESCE(position.pnl_usdt, 0) + pnl)]

\* The stored row after the UPDATE of _execute_exit_trade: status and the
\* remaining coins are the values computed from the row read earlier
\* (position), pnl_usdt is incremented in the store.
\* The UPDATE of an exit taking the coins off the spot leg only.
ExitUpdatedRow_SpotLegOnly(row, position, coins_to_close, pnl) ==
    [row EXCEPT
        !.status = ExitStatus(position.remaining_spot_coins - coins_to_close),
        !.remaining_spot_coins = position.remaining_spot_coins - coins_to_close,
        !.pnl_usdt = Some(COALESCE(row.pnl_usdt, 0) + pnl)]

ExitUpdatedRow(row, position, coins_to_close, pnl) ==
    [row EXCEPT
        !.status = ExitStatus(position.remaining_spot_coins - coins_to_close),
        !.remaining_spot_coins = position.remaining_spot_coins - coins_to_close,
        !.remaining_futures_coins = position.remaining_futures_coins - coins_to_close,
        !.pnl_usdt = Some(COALESCE(row.pnl_usdt, 0) + pnl)]

\* The position_adjustments row an exit inserts.
AdjustmentRow(position_id, coins_to_close, exit_data, pnl) ==
    [position_id |-> position_id,
     adjustment_type |-> "partial_close",
     exit_spread |-> exit_data.exit_spread,
     spot_volume_coins |-> coins_to_close,
     futures_volume_coins |-> coins_to_close,
     spot_price |-> exit_data.spot_weighted_bid,
     futures_price |-> exit_data.futures_weighted_ask,
     pnl_usdt |-> pnl]

\* _has_open_position(symbol); connected = FALSE is a failure of the lookup,
\* on which the except clause returns False.
_has_open_position(db, symbol, connected) ==
    /\ connected
    /\ \E pid \in DOMAIN db :
          db[pid].symbol = symbol /\ db[pid].status \in {"open", "partially_closed"}

\* Rows a "status IN ('open', 'partially_closed')" query returns.
OpenPositionIds(db) ==
    {pid \in DOMAIN db : db[pid].status \in {"open", "partially_closed"}}

Sides == {"spot_buy", "futures_sell", "spot_sell", "futures_buy"}

\* orders after the gateway has acknowledged one more order.
Placed(book, side, symbol) == [book EXCEPT ![<<side, symbol>>] = @ + 1]

(* ------------------------------ threads ------------------------------- *)

\* notified is the notification the thread's last call of _execute_exit_trade
\* or _execute_arbitrage_trade handed to _send_notification ("executed" or
\* "error"), NULL when it handed none.
IdleFrame ==
    [pc |-> "idle", symbol |-> "", position_id |-> NULL, coins |-> 0,
     data |-> NULL, position |-> NULL, notified |-> NULL]

\* Frame of a call _execute_exit_trade(position_id, coins_to_close, ..., exit_data).
ExitCall(position_id, coins_to_close, symbol, exit_data) ==
    [pc |-> "exit_select", symbol |-> symbol, position_id |-> Some(position_id),
     coins |-> coins_to_close, data |-> Some(exit_data), position |-> NULL,
     notified |-> NULL]

\* Variant of EntryCall that keeps a position_id of None, so that the commit
\* takes the INSERT branch; with it a manual entry adds a second position.
EntryCall_KeepsNone(symbol, spread_data, position_id) ==
    [pc |-> "entry_orders", symbol |-> symbol, position_id |-> position_id,
     coins |-> spread_data.tradable_volume_coins,
     data |-> Some(spread_data), position |-> NULL, notified |-> NULL]

\* Frame of a call _execute_arbitrage_trade(symbol, ..., spread_data, position_id):
\* a position_id of None is replaced by a fresh uuid on entry.
EntryCall(symbol, spread_data, position_id) ==
    [pc |-> "entry_orders", symbol |-> symbol,
     position_id |-> IF position_id = NULL THEN Some(FreshId) ELSE position_id,
     coins |-> spread_data.tradable_volume_coins,
     data |-> Some(spread_data), position |-> NULL, notified |-> NULL]

\* starts counts the calls of start_monitoring, threads the monitoring
\* threads they created.
IdleMonitor == [pc |-> "none", i |-> 0, todo |-> <<>>, entry_log |-> NULL, exit_log |-> NULL,
                called |-> {}, pair_log |-> <<>>, starts |-> 0, threads |-> 0]

\* The monitoring thread with the locals of its cycle cleared.
FreshCycle(m) == [IdleMonitor EXCEPT !.starts = m.starts, !.threads = m.threads]

\* Rows the positions table may hold when the engine is constructed: what
\* the INSERT of _execute_arbitrage_trade writes for an entry of c coins
\* bought at 10 and sold at 12.
StoredRow(pid, c) ==
    InsertedRow(SymbolOf(pid),
                [tradable_volume_coins |-> c, spot_weighted_ask |-> 10,
                 futures_weighted_bid |-> 12, entry_spread |-> 20])

\* The stores that hold rows for some of the ids in ids, each for an entry
\* of one of the quantities in coins.
InitialStores(ids, coins) ==
    UNION {[S -> coins] : S \in SUBSET ids}

InitWith(stores, configs) ==
    /\ \E coins \in stores :
          positions = [pid \in DOMAIN coins |-> StoredRow(pid, coins[pid])]
    /\ adjustments = <<>>
    /\ orders = [o \in Sides \X Symbols |-> 0]
    /\ frame = [t \in Threads |-> IdleFrame]
    /\ requests = 0
    /\ config \in configs
    /\ running = FALSE
    /\ monitor = IdleMonitor
    /\ cycles = 0
    /\ calc = <<>>

\* Operator requests are checked against a store with at most the row p1
\* (a request for p2 then finds no row) and with auto_trade set, which no
\* manual trade reads; monitoring cycles against a store with any of the
\* rows, each of one coin (no cycle gets as far as using the quantity), and
\* either setting of auto_trade.
Init == InitWith(InitialStores({"p1"}, 1..MaxCoins), {cfg \in Configs : cfg.auto_trade})

InitMonitor == InitWith(InitialStores(PositionIds, {1}), Configs)

(* -------------------- _execute_exit_trade, step by step ---------------- *)

Return(t) == frame' = [frame EXCEPT ![t] = IdleFrame]

\* The call returns after _send_notification(message).
Notified(t, message) == frame' = [frame EXCEPT ![t] = [IdleFrame EXCEPT !.notified = Some(message)]]

\* Variant of Rejected that swallows the exception without a notification.
Rejected_Silent(t) == Return(t)

\* The except clause of _execute_exit_trade and of _execute_arbitrage_trade:
\* the error is logged and notified, nothing has been committed.
Rejected(t) == Notified(t, "error")

\* A statement of the write or its commit raises (the database is down, the
\* connection drops): nothing of the transaction is kept and the except
\* clause of the trade method runs.
WriteFailed(t) == Rejected(t) /\ UNCHANGED <<positions, adjustments>>

\* SELECT * FROM positions WHERE position_id = %s; a missing row returns.
ExitSelect(t) ==
    /\ frame[t].pc = "exit_select"
    /\ LET position_id == frame[t].position_id[1]
       IN  IF position_id \notin DOMAIN positions
           THEN Return(t)
           ELSE frame' = [frame EXCEPT ![t].pc = "exit_orders",
                                       ![t].position = Some(positions[position_id])]
    /\ UNCHANGED <<positions, adjustments, orders, requests, config, running, monitor, cycles, calc>>

\* execute_spot_sell, then execute_futures_buy; either may raise, and the
\* except clause then ends the call with nothing written to the store.
ExitOrders(t) ==
    /\ frame[t].pc = "exit_orders"
    /\ LET f == frame[t]
       IN  \E spot_ack, futures_ack \in OrderOutcomes :
               IF ~spot_ack
               THEN Rejected(t) /\ UNCHANGED orders
               ELSE IF ~futures_ack
                    THEN Rejected(t) /\ orders' = Placed(orders, "spot_sell", f.symbol)
                    ELSE /\ frame' = [frame EXCEPT ![t].pc = "exit_commit"]
                         /\ orders' = Placed(Placed(orders, "spot_sell", f.symbol),
                                             "futures_buy", f.symbol)
    /\ UNCHANGED <<positions, adjustments, requests, config, running, monitor, cycles, calc>>

\* PnL from the row read, UPDATE positions, INSERT INTO position_adjustments,
\* commit.  A zero entered volume raises ZeroDivisionError before the UPDATE.
ExitCommit(t) ==
    /\ frame[t].pc = "exit_commit"
    /\ LET f == frame[t]
           position_id == f.position_id[1]
           position == f.position[1]
           exit_data == f.data[1]
       IN  IF position.spot_volume_coins = 0 \/ position.futures_volume_coins = 0
           THEN Rejected(t) /\ UNCHANGED <<positions, adjustments>>
           ELSE LET pnl == ExitPnl(position, f.coins, exit_data)
                IN  \/ WriteFailed(t)
                    \/ /\ positions' =
                              [positions EXCEPT ![position_id] =
                                  ExitUpdatedRow(@, position, f.coins, pnl)]
                       /\ adjustments' =
                              Append(adjustments,
                                     AdjustmentRow(position_id, f.coins, exit_data, pnl))
                       /\ Notified(t, "executed")
    /\ UNCHANGED <<orders, requests, config, running, monitor, cycles, calc>>

(* ------------------ _execute_arbitrage_trade, step by step ------------- *)

\* execute_spot_buy, then execute_futures_sell.
EntryOrders(t) ==
    /\ frame[t].pc = "entry_orders"
    /\ LET f == frame[t]
       IN  \E spot_ack, futures_ack \in OrderOutcomes :
               IF ~spot_ack
               THEN Rejected(t) /\ UNCHANGED orders
               ELSE IF ~futures_ack
                    THEN Rejected(t) /\ orders' = Placed(orders, "spot_buy", f.symbol)
                    ELSE /\ frame' = [frame EXCEPT ![t].pc = "entry_commit"]
                         /\ orders' = Placed(Placed(orders, "spot_buy", f.symbol),
                                             "futures_sell", f.symbol)
    /\ UNCHANGED <<positions, adjustments, requests, config, running, monitor, cycles, calc>>

\* "if position_id is None" INSERT, else UPDATE ... WHERE position_id = %s
\* (which changes nothing when no row has that id), then commit.
EntryCommit(t) ==
    /\ frame[t].pc = "entry_commit"
    /\ LET f == frame[t]
           spread_data == f.data[1]
       IN  \/ WriteFailed(t)
           \/ /\ IF f.position_id = NULL
                 THEN positions' = positions @@ (FreshId :> InsertedRow(f.symbol, spread_data))
                 ELSE IF f.position_id[1] \in DOMAIN positions
                      THEN positions' = [positions EXCEPT ![f.position_id[1]] =
                                             IncreasedRow(@, spread_data)]
                      ELSE UNCHANGED positions
              /\ UNCHANGED adjustments
              /\ Notified(t, "executed")
    /\ UNCHANGED <<orders, requests, config, running, monitor, cycles, calc>>

(* --------------------------- operator requests ------------------------- *)

\* Targets an operator passes to execute_manual_entry_trade (handed on to
\* calculate_entry_spread as target_volume_usdt).
ManualEntryVolumes == {20 * c : c \in 1..MaxCoins}

\* execute_manual_exit_trade(position_id, volume_coins) up to its call of
\* _execute_exit_trade.  fetched = FALSE is a gateway error on a book fetch.
execute_manual_exit_trade(t, position_id, volume_coins) ==
    /\ t \in Operators
    /\ frame[t].pc = "idle"
    /\ requests < MaxRequests
    /\ requests' = requests + 1
    /\ \E fetched \in BOOLEAN, spot_order_book \in SpotBooks,
          futures_order_book \in FuturesBooks :
          IF \/ position_id \notin DOMAIN positions
             \/ pair_config(config, positions[position_id].symbol) = {}
             \/ ~fetched
             \/ calculate_exit_spread_raises(spot_order_book, futures_order_book, volume_coins)
          THEN UNCHANGED frame
          ELSE frame' = [frame EXCEPT ![t] =
                   ExitCall(position_id, volume_coins, positions[position_id].symbol,
                            calculate_exit_spread(config, spot_order_book,
                                                  futures_order_book, volume_coins))]
    /\ UNCHANGED <<positions, adjustments, orders, config, running, monitor, cycles, calc>>

\* execute_manual_entry_trade(symbol, volume_coins) up to its call of
\* _execute_arbitrage_trade (made without a position_id).
execute_manual_entry_trade(t, symbol, volume_coins) ==
    /\ t \in Operators
    /\ frame[t].pc = "idle"
    /\ requests < MaxRequests
    /\ requests' = requests + 1
    /\ \E fetched \in BOOLEAN, spot_order_book \in SpotBooks,
          futures_order_book \in FuturesBooks :
          IF \/ pair_config(config, symbol) = {}
             \/ ~fetched
             \/ calculate_entry_spread_raises(config, spot_order_book, futures_order_book,
                                              Some(volume_coins))
          THEN UNCHANGED frame
          ELSE frame' = [frame EXCEPT ![t] =
                   EntryCall(symbol,
                             calculate_entry_spread(config, spot_order_book,
                                                    futures_order_book, Some(volume_coins)),
                             NULL)]
    /\ UNCHANGED <<positions, adjustments, orders, config, running, monitor, cycles, calc>>

(* --------------------------- monitoring thread ------------------------- *)

\* Variant of start_monitoring without the "if self.running: return" check.
start_monitoring_Unguarded ==
    /\ requests < MaxRequests
    /\ running \/ monitor.pc = "none"
    /\ requests' = requests + 1
    /\ running' = TRUE
    /\ monitor' = [monitor EXCEPT !.pc = IF @ = "none" THEN "loop" ELSE @,
                                  !.starts = @ + 1, !.threads = @ + 1]
    /\ UNCHANGED <<positions, adjustments, orders, frame, config, cycles, calc>>

\* start_monitoring: a warning and nothing else while running, else it sets
\* running and starts the thread.  A start after a stop (a second thread
\* object) is not modelled: the call is made while running or before the
\* first thread exists.
start_monitoring ==
    /\ requests < MaxRequests
    /\ running \/ monitor.pc = "none"
    /\ requests' = requests + 1
    /\ IF running
       THEN /\ monitor' = [monitor EXCEPT !.starts = @ + 1]
            /\ UNCHANGED running
       ELSE /\ running' = TRUE
            /\ monitor' = [monitor EXCEPT !.pc = "loop", !.starts = @ + 1, !.threads = @ + 1]
    /\ UNCHANGED <<positions, adjustments, orders, frame, config, cycles, calc>>

\* stop_monitoring: a warning and nothing else while not running, else it
\* clears running (the bounded join that follows changes no state).
stop_monitoring ==
    /\ requests < MaxRequests
    /\ requests' = requests + 1
    /\ IF ~running THEN UNCHANGED running ELSE running' = FALSE
    /\ UNCHANGED <<positions, adjustments, orders, frame, config, monitor, cycles, calc>>

\* Variant of MonitorLoop that never tests self.running.
MonitorLoop_IgnoresStop ==
    /\ monitor.pc = "loop"
    /\ cycles < MaxCycles
    /\ cycles' = cycles + 1
    /\ monitor' = [FreshCycle(monitor) EXCEPT !.pc = "entry", !.i = 1]
    /\ UNCHANGED <<positions, adjustments, orders, frame, requests, config, running, calc>>

\* "while self.running:" of _monitoring_loop.
MonitorLoop ==
    /\ monitor.pc = "loop"
    /\ IF ~running
       THEN monitor' = [FreshCycle(monitor) EXCEPT !.pc = "done"] /\ UNCHANGED cycles
       ELSE /\ cycles < MaxCycles
            /\ cycles' = cycles + 1
            /\ monitor' = [FreshCycle(monitor) EXCEPT !.pc = "entry", !.i = 1]
    /\ UNCHANGED <<positions, adjustments, orders, frame, requests, config, running, calc>>

\* The monitor after the iteration for pair i of _check_arbitrage_opportunities.
NextPair(m, log) ==
    [m EXCEPT !.i = @ + 1, !.entry_log = log,
              !.pc = IF m.i + 1 > Len(config.TRADING_PAIRS) THEN "exit_select" ELSE "entry"]

\* What one iteration of the for loop of _check_arbitrage_opportunities did
\* for its pair: outcome is "fetch_failed" (a book fetch raised), "raised"
\* (another call raised before the spread was computed) or "evaluated";
\* applicable says the spread was a trade opportunity with auto_trade set and
\* no open position for the symbol; traded says _execute_arbitrage_trade was
\* called.
PairEntry(symbol, outcome, applicable, traded) ==
    [symbol |-> symbol, outcome |-> outcome, applicable |-> applicable, traded |-> traded]

\* The monitor with one more pair recorded for the current cycle.
Logged(m, entry) == [m EXCEPT !.pair_log = Append(@, entry)]

\* _check_position_increase asking for lot_max whatever the position holds.
_check_position_increase_NoHeadroom(m, symbol) ==
    LET found == {pid \in OpenPositionIds(positions) : positions[pid].symbol = symbol}
    IN  IF found = {}
        THEN monitor' = m /\ UNCHANGED frame
        ELSE \E pid \in found, fetched \in BOOLEAN, spot_order_book \in SpotBooks,
                futures_order_book \in FuturesBooks :
                LET current_volume_usdt == positions[pid].spot_volume_usdt
                    remaining_volume == config.lot_max
                IN  IF \/ current_volume_usdt < 0
                       \/ ~(remaining_volume >= config.lot_min)
                       \/ ~fetched
                       \/ calculate_entry_spread_raises(config, spot_order_book,
                                                        futures_order_book,
                                                        Some(remaining_volume))
                       \/ ~calculate_entry_spread(config, spot_order_book,
                                                  futures_order_book,
                                                  Some(remaining_volume)).trade_opportunity
                    THEN monitor' = m /\ UNCHANGED frame
                    ELSE /\ monitor' = m
                         /\ frame' = [frame EXCEPT ![MonitorThread] =
                                EntryCall(symbol,
                                          calculate_entry_spread(config, spot_order_book,
                                                                 futures_order_book,
                                                                 Some(remaining_volume)),
                                          Some(pid))]

\* _check_position_increase calling _execute_arbitrage_trade whatever the
\* recomputed spread says.
_check_position_increase_IgnoresSpread(m, symbol) ==
    LET found == {pid \in OpenPositionIds(positions) : positions[pid].symbol = symbol}
    IN  IF found = {}
        THEN monitor' = m /\ UNCHANGED frame
        ELSE \E pid \in found, fetched \in BOOLEAN, spot_order_book \in SpotBooks,
                futures_order_book \in FuturesBooks :
                LET current_volume_usdt == positions[pid].spot_volume_usdt
                    remaining_volume == config.lot_max - current_volume_usdt
                IN  IF \/ current_volume_usdt >= config.lot_max
                       \/ ~(remaining_volume >= config.lot_min)
                       \/ ~fetched
                       \/ calculate_entry_spread_raises(config, spot_order_book,
                                                        futures_order_book,
                                                        Some(remaining_volume))
                    THEN monitor' = m /\ UNCHANGED frame
                    ELSE /\ monitor' = m
                         /\ frame' = [frame EXCEPT ![MonitorThread] =
                                EntryCall(symbol,
                                          calculate_entry_spread(config, spot_order_book,
                                                                 futures_order_book,
                                                                 Some(remaining_volume)),
                                          Some(pid))]

\* _check_position_increase(symbol, ..., spread_data), up to its call of
\* _execute_arbitrage_trade; m is the monitor after this pair's iteration.
_check_position_increase(m, symbol) ==
    LET found == {pid \in OpenPositionIds(positions) : positions[pid].symbol = symbol}
    IN  IF found = {}
        THEN monitor' = m /\ UNCHANGED frame
        ELSE \E pid \in found, fetched \in BOOLEAN, spot_order_book \in SpotBooks,
                futures_order_book \in FuturesBooks :
                LET current_volume_usdt == positions[pid].spot_volume_usdt
                    remaining_volume == config.lot_max - current_volume_usdt
                IN  IF \/ current_volume_usdt >= config.lot_max
                       \/ ~(remaining_volume >= config.lot_min)
                       \/ ~fetched
                       \/ calculate_entry_spread_raises(config, spot_order_book,
                                                        futures_order_book,
                                                        Some(remaining_volume))
                       \/ ~calculate_entry_spread(config, spot_order_book,
                                                  futures_order_book,
                                                  Some(remaining_volume)).trade_opportunity
                    THEN monitor' = m /\ UNCHANGED frame
                    ELSE /\ monitor' = m
                         /\ frame' = [frame EXCEPT ![MonitorThread] =
                                EntryCall(symbol,
                                          calculate_entry_spread(config, spot_order_book,
                                                                 futures_order_book,
                                                                 Some(remaining_volume)),
                                          Some(pid))]

\* The iteration going from the computed spread straight to the trade, with
\* neither the store_spread_data call nor the auto_trade test.
MonitorEntryPair_TradesUnasked ==
    /\ monitor.pc = "entry"
    /\ frame[MonitorThread].pc = "idle"
    /\ LET symbol == config.TRADING_PAIRS[monitor.i]
       IN  \E fetched, stored, connected \in BOOLEAN, spot_order_book \in SpotBooks,
              futures_order_book \in FuturesBooks :
              IF ~fetched
              THEN /\ monitor' = Logged(NextPair(monitor, NULL),
                                        PairEntry(symbol, "fetch_failed", FALSE, FALSE))
                   /\ UNCHANGED frame
              ELSE IF \/ ~stored
                      \/ calculate_entry_spread_raises(config, spot_order_book,
                                                       futures_order_book, NULL)
              THEN /\ monitor' = Logged(NextPair(monitor, NULL),
                                        PairEntry(symbol, "raised", FALSE, FALSE))
                   /\ UNCHANGED frame
              ELSE LET spread_data == calculate_entry_spread(config, spot_order_book,
                                                             futures_order_book, NULL)
                       had_open == _has_open_position(positions, symbol, TRUE)
                       Log(notified) == Some([symbol |-> symbol, spread_data |-> spread_data,
                                              had_open |-> had_open, notified |-> notified])
                       applicable == /\ spread_data.trade_opportunity
                                     /\ config.auto_trade
                                     /\ ~had_open
                       Skipped(notified) ==
                           Logged(NextPair(monitor, Log(notified)),
                                  PairEntry(symbol, "evaluated", applicable, FALSE))
                   IN  IF ~spread_data.trade_opportunity
                       THEN monitor' = Skipped(FALSE) /\ UNCHANGED frame
                       ELSE IF ~_has_open_position(positions, symbol, connected)
                                 THEN /\ monitor' =
                                             Logged(NextPair(monitor, Log(TRUE)),
                                                    PairEntry(symbol, "evaluated", TRUE, TRUE))
                                      /\ frame' = [frame EXCEPT ![MonitorThread] =
                                             EntryCall(symbol, spread_data, NULL)]
                                 ELSE _check_position_increase(Skipped(TRUE), symbol)
    /\ UNCHANGED <<positions, adjustments, orders, requests, config, running, cycles, calc>>

\* One iteration of the for loop of _check_arbitrage_opportunities.  fetched
\* and stored are the outcomes of the book fetches and of store_order_book_data;
\* every exception ends the iteration for this pair.  The notified field of
\* the entry log says whether the iteration goes through the
\* _send_notification call that ends the "if spread_data['trade_opportunity']"
\* block (the trade methods it follows return normally whatever happens).
MonitorEntryPair ==
    /\ monitor.pc = "entry"
    /\ frame[MonitorThread].pc = "idle"
    /\ LET symbol == config.TRADING_PAIRS[monitor.i]
       IN  \E fetched, stored, connected \in BOOLEAN, spot_order_book \in SpotBooks,
              futures_order_book \in FuturesBooks :
              IF ~fetched
              THEN /\ monitor' = Logged(NextPair(monitor, NULL),
                                        PairEntry(symbol, "fetch_failed", FALSE, FALSE))
                   /\ UNCHANGED frame
              ELSE IF \/ ~stored
                      \/ calculate_entry_spread_raises(config, spot_order_book,
                                                       futures_order_book, NULL)
              THEN /\ monitor' = Logged(NextPair(monitor, NULL),
                                        PairEntry(symbol, "raised", FALSE, FALSE))
                   /\ UNCHANGED frame
              ELSE LET spread_data == calculate_entry_spread(config, spot_order_book,
                                                             futures_order_book, NULL)
                       had_open == _has_open_position(positions, symbol, TRUE)
                       Log(notified) == Some([symbol |-> symbol, spread_data |-> spread_data,
                                              had_open |-> had_open, notified |-> notified])
                       applicable == /\ spread_data.trade_opportunity
                                     /\ config.auto_trade
                                     /\ ~had_open
                       Skipped(notified) ==
                           Logged(NextPair(monitor, Log(notified)),
                                  PairEntry(symbol, "evaluated", applicable, FALSE))
                   IN  IF store_spread_data_raises(spread_data)
                       THEN monitor' = Skipped(FALSE) /\ UNCHANGED frame
                       ELSE IF ~spread_data.trade_opportunity
                            THEN monitor' = Skipped(FALSE) /\ UNCHANGED frame
                            ELSE IF ~config.auto_trade
                            THEN monitor' = Skipped(TRUE) /\ UNCHANGED frame
                            ELSE IF ~_has_open_position(positions, symbol, connected)
                                 THEN /\ monitor' =
                                             Logged(NextPair(monitor, Log(TRUE)),
                                                    PairEntry(symbol, "evaluated", TRUE, TRUE))
                                      /\ frame' = [frame EXCEPT ![MonitorThread] =
                                             EntryCall(symbol, spread_data, NULL)]
                                 ELSE _check_position_increase(Skipped(TRUE), symbol)
    /\ UNCHANGED <<positions, adjustments, orders, requests, config, running, cycles, calc>>

\* Sequences that list every element of S once: the orders in which a query
\* without ORDER BY may return its rows.
Orderings(S) ==
    {q \in [1..Cardinality(S) -> S] : \A a \in S : \E k \in 1..Cardinality(S) : q[k] = a}

\* The SELECT at the start of _check_exit_opportunities: the rows are
\* fetched once and the loop works on that snapshot.
MonitorExitSelect ==
    /\ monitor.pc = "exit_select"
    /\ frame[MonitorThread].pc = "idle"
    /\ \E order \in Orderings(OpenPositionIds(positions)) :
          monitor' = [monitor EXCEPT
              !.pc = "exit_pass",
              !.todo = [k \in 1..Len(order) |->
                           [position_id |-> order[k], row |-> positions[order[k]]]]]
    /\ UNCHANGED <<positions, adjustments, orders, frame, requests, config, running, cycles, calc>>

\* The exit pass ended by the except clause around the whole loop, during
\* the iteration for the first row of todo: the rows after it are never
\* iterated (todo keeps them until the next cycle begins).
ExitPassAborted(m, log) == [m EXCEPT !.pc = "sleep", !.todo = Tail(@), !.exit_log = log]

\* One iteration of the for loop of _check_exit_opportunities, or its end.
MonitorExitPosition ==
    /\ monitor.pc = "exit_pass"
    /\ frame[MonitorThread].pc = "idle"
    /\ IF monitor.todo = <<>>
       THEN monitor' = [monitor EXCEPT !.pc = "sleep"] /\ UNCHANGED frame
       ELSE LET position == Head(monitor.todo).row
                position_id == Head(monitor.todo).position_id
                remaining_coins == position.remaining_spot_coins
            IN  IF pair_config(config, position.symbol) = {}
                THEN monitor' = [monitor EXCEPT !.todo = Tail(@)] /\ UNCHANGED frame
                ELSE \E fetched \in BOOLEAN, spot_order_book \in SpotBooks,
                        futures_order_book \in FuturesBooks,
                        min_trade_amount \in MinTradeAmounts :
                        LET args == <<spot_order_book, futures_order_book>>
                            log == Some([position_id |-> position_id,
                                         remaining_coins |-> remaining_coins,
                                         spot_order_book |-> spot_order_book,
                                         futures_order_book |-> futures_order_book,
                                         min_trade_amount |-> min_trade_amount])
                            exit_data == calculate_exit_spread(config, args[1], args[2], args[3])
                            close_args == <<position_id, remaining_coins, exit_data,
                                            min_trade_amount>>
                            result == should_close_position(config, close_args[1],
                                          close_args[2], close_args[3], close_args[4],
                                          close_args[5])
                        IN  IF ~fetched
                            THEN monitor' = ExitPassAborted(monitor, NULL) /\ UNCHANGED frame
                            ELSE IF \/ CallRaisesTypeError(calculate_exit_spread_params, args)
                                    \/ CallRaisesTypeError(should_close_position_params,
                                                           close_args)
                                    \/ Len(result) # 2
                                 THEN /\ monitor' = ExitPassAborted(monitor, log)
                                      /\ UNCHANGED frame
                                 ELSE IF result[1] /\ config.auto_trade
                                      THEN /\ monitor' = [monitor EXCEPT
                                                  !.todo = Tail(@), !.exit_log = log,
                                                  !.called = @ \cup {position_id}]
                                           /\ frame' = [frame EXCEPT ![MonitorThread] =
                                                  ExitCall(position_id, result[2],
                                                           position.symbol, exit_data)]
                                      ELSE /\ monitor' = [monitor EXCEPT
                                                  !.todo = Tail(@), !.exit_log = log]
                                           /\ UNCHANGED frame
    /\ UNCHANGED <<positions, adjustments, orders, requests, config, running, cycles, calc>>

\* time.sleep(check_interval_seconds) at the end of a cycle.
MonitorSleep ==
    /\ monitor.pc = "sleep"
    /\ monitor' = [monitor EXCEPT !.pc = "loop"]
    /\ UNCHANGED <<positions, adjustments, orders, frame, requests, config, running, cycles, calc>>

(* ------------------- direct calls of the calculator -------------------- *)

\* Arguments of the direct calls.  A book of depth 7 (ThinBook) lets the
\* tradable volume fall below a position of up to MaxCalcCoins coins; a
\* position_coins of 0 makes calculate_exit_spread divide by zero and a
\* negative one reaches the coins_to_close <= 0 return.
ThinBook ==
    [asks |-> << <<10, 2>>, <<10, 5>> >>, bids |-> << <<9, 2>>, <<9, 5>> >>]
CalcPositionCoins == (0 - 1)..MaxCalcCoins
CalcMinTradeAmounts == {0, 1, 5}
CalcSpotBooks == {LowBook, HighBook, EmptyBook}
CalcFuturesBooks == {LowBook, HighBook, ThinBook, EmptyBook}

\* Ask levels [price, volume] and the ask lists built from them, in any
\* order (the walk reads the list as given).
AskLevels == {<<10, 2>>, <<10, 4>>, <<20, 1>>, <<20, 2>>}
AskLists == UNION {[1..n -> AskLevels] : n \in 0..MaxLevels}
\* target_volume_usdt is a float the method does not test: zero and a
\* negative amount are among the arguments.
TargetVolumes == {20 * k : k \in (0 - 1)..MaxTargetLots}

RECURSIVE Notional(_)
\* Sum of price * coin_volume over levels.
Notional(levels) ==
    IF levels = <<>> THEN 0 ELSE levels[1][1] * levels[1][2] + Notional(Tail(levels))

RECURSIVE Volume(_)
\* Sum of coin_volume over levels.
Volume(levels) ==
    IF levels = <<>> THEN 0 ELSE levels[1][2] + Volume(Tail(levels))

\* Number of leading levels whose cumulative notional stays within target:
\* the levels the loop takes entirely before it meets the level it breaks at.
FullLevels(levels, target) ==
    CHOOSE k \in 0..Len(levels) :
        /\ \A j \in 1..k : Notional(SubSeq(levels, 1, j)) <= target
        /\ k < Len(levels) => Notional(SubSeq(levels, 1, k + 1)) > target

\* The two quotients of calculate_weighted_spot_ask (remaining_usdt / price
\* and total_cost / total_coins) are whole numbers on these arguments, so
\* the integer quotients of the walk are the quotients the code computes.
ExactQuotients(levels, target) ==
    LET k == FullLevels(levels, target)
        before == Notional(SubSeq(levels, 1, k))
        partial == IF k < Len(levels) THEN target - before ELSE 0
        price == IF k < Len(levels) THEN levels[k + 1][1] ELSE 1
        coins == Volume(SubSeq(levels, 1, k)) + partial \div price
    IN  /\ partial % price = 0
        /\ coins # 0 => ((before + partial) \div coins) * coins = before + partial

\* Books passed to calculate_entry_spread and calculate_exit_spread: besides
\* the books above, books with one side empty, a book of depth 1, a book
\* whose asks step from 10 to 20, a book whose bids step from 14 to 10,
\* books whose bids put a spread exactly on
\* its threshold (11 against an ask of 10 is spread_in, 21 against an ask
\* of 20 is spread_out), and a book whose levels are out of price order.
NoAskBook == [asks |-> <<>>, bids |-> LowBook.bids]
NoBidBook == [asks |-> LowBook.asks, bids |-> <<>>]
ShallowBook == [asks |-> << <<10, 1>> >>, bids |-> << <<12, 1>> >>]
StepBook == [asks |-> << <<10, 2>>, <<20, 2>> >>, bids |-> HighBook.bids]
StepBidBook == [asks |-> HighBook.asks, bids |-> << <<14, 2>>, <<10, 2>> >>]
EntryEdgeBook == Book(20, 11)
ExitEdgeBook == Book(30, 21)
UnsortedBook ==
    [asks |-> << <<20, 2>>, <<10, 6>> >>, bids |-> << <<9, 2>>, <<12, 6>> >>]
SpreadBooks ==
    {LowBook, HighBook, ThinBook, EmptyBook, NoAskBook, NoBidBook, ShallowBook, StepBook,
     StepBidBook, EntryEdgeBook, ExitEdgeBook, UnsortedBook}
\* target_volume_usdt of calculate_entry_spread: omitted (None) or a float.
EntryTargets == {NULL} \cup {Some(t) : t \in TargetVolumes}

\* n / d is a whole number (or d is 0 and the division raises).
Exact(n, d) == d # 0 => (n \div d) * d = n

\* The weighted price of a quantity walk is a whole number.
ExactWalk(r) == r.price * r.coins = r.usdt

\* Every quotient calculate_entry_spread computes on these arguments is a
\* whole number.
ExactEntrySpread(cfg, spot_order_book, futures_order_book, target_volume_usdt) ==
    LET spot == calculate_weighted_spot_ask(spot_order_book.asks,
                                            EntryTarget(cfg, target_volume_usdt))
        futures_bid == calculate_weighted_futures_bid(futures_order_book.bids, spot.coins)
        futures_ask == calculate_weighted_futures_ask(futures_order_book.asks, spot.coins)
        spot_bid == calculate_weighted_spot_bid(spot_order_book.bids, spot.coins)
    IN  /\ ExactQuotients(spot_order_book.asks, EntryTarget(cfg, target_volume_usdt))
        /\ ExactWalk(futures_bid) /\ ExactWalk(futures_ask) /\ ExactWalk(spot_bid)
        /\ Exact((futures_bid.price - spot.price) * 100, spot.price)
        /\ Exact((spot_bid.price - futures_ask.price) * 100, futures_ask.price)

\* Every quotient calculate_exit_spread computes on these arguments is a
\* whole number.
ExactExitSpread(spot_order_book, futures_order_book, position_coins) ==
    LET spot == calculate_weighted_spot_bid(spot_order_book.bids, position_coins)
        futures == calculate_weighted_futures_ask(futures_order_book.asks, position_coins)
    IN  /\ ExactWalk(spot) /\ ExactWalk(futures)
        /\ Exact((spot.price - futures.price) * 100, futures.price)

\* The record of one call: the method, its arguments, whether it raised and
\* what it returned.
EntrySpreadCall(cfg, args) ==
    IF calculate_entry_spread_raises(cfg, args[1], args[2], args[3])
    THEN [op |-> "calculate_entry_spread", args |-> args, raised |-> TRUE, result |-> NULL]
    ELSE [op |-> "calculate_entry_spread", args |-> args, raised |-> FALSE,
          result |-> calculate_entry_spread(cfg, args[1], args[2], args[3])]

ExitSpreadCall(cfg, args) ==
    IF calculate_exit_spread_raises(args[1], args[2], args[3])
    THEN [op |-> "calculate_exit_spread", args |-> args, raised |-> TRUE, result |-> NULL]
    ELSE [op |-> "calculate_exit_spread", args |-> args, raised |-> FALSE,
          result |-> calculate_exit_spread(cfg, args[1], args[2], args[3])]

ShouldCloseCall(cfg, args) ==
    IF calculate_exit_spread_raises(args[3], args[4], args[2])
    THEN [op |-> "should_close_position", args |-> args, raised |-> TRUE, result |-> NULL]
    ELSE [op |-> "should_close_position", args |-> args, raised |-> FALSE,
          result |-> should_close_position(cfg, args[1], args[2], args[3], args[4], args[5])]

WeightedSpotAskCall(args) ==
    [op |-> "calculate_weighted_spot_ask", args |-> args, raised |-> FALSE,
     result |-> calculate_weighted_spot_ask(args[1], args[2])]

\* The three quantity walks, the levels they are called on here (bids in
\* decreasing, asks in increasing or any other order: the loop does not look
\* at the order; a level may hold no coins) and the target quantities.
QuantityWalks ==
    {"calculate_weighted_futures_bid", "calculate_weighted_spot_bid",
     "calculate_weighted_futures_ask"}
QuantityLevels == {<<12, 1>>, <<12, 2>>, <<11, 0>>, <<10, 1>>, <<10, 3>>}
QuantityLists == UNION {[1..n -> QuantityLevels] : n \in 0..MaxLevels}
TargetCoins == 1..MaxTargetLots

WeightedQuantityCall(op, args) ==
    [op |-> op, args |-> args, raised |-> FALSE,
     result |-> CASE op = "calculate_weighted_futures_bid" ->
                         calculate_weighted_futures_bid(args[1], args[2])
                  [] op = "calculate_weighted_spot_bid" ->
                         calculate_weighted_spot_bid(args[1], args[2])
                  [] op = "calculate_weighted_futures_ask" ->
                         calculate_weighted_futures_ask(args[1], args[2])]

\* A calculator method that returns with something besides its result left
\* behind: an order on the gateway.
Returned_PlacesOrder(call) ==
    /\ calc' = Append(calc, call)
    /\ orders' = Placed(orders, "spot_sell", "BTC/USDT")
    /\ UNCHANGED <<positions, adjustments, frame, requests, config, running, monitor, cycles>>

\* A calculator method returns: neither should_close_position nor the
\* spread methods nor the walks they call assign an attribute, touch the
\* database or call the gateway.
Returned(call) ==
    /\ calc' = Append(calc, call)
    /\ UNCHANGED <<positions, adjustments, orders, frame, requests, config, running, monitor,
                   cycles>>

CallShouldClosePosition ==
    /\ calc = <<>>
    /\ \E position_coins \in CalcPositionCoins, spot_order_book \in CalcSpotBooks,
          futures_order_book \in CalcFuturesBooks, min_trade_amount \in CalcMinTradeAmounts :
          Returned(ShouldCloseCall(config, <<"p1", position_coins, spot_order_book,
                                             futures_order_book, min_trade_amount>>))

CallWeightedSpotAsk ==
    /\ calc = <<>>
    /\ \E asks \in AskLists, target_volume_usdt \in TargetVolumes :
          /\ ExactQuotients(asks, target_volume_usdt)
          /\ Returned(WeightedSpotAskCall(<<asks, target_volume_usdt>>))

CallWeightedQuantity ==
    /\ calc = <<>>
    /\ \E op \in QuantityWalks, levels \in QuantityLists, target_coins \in TargetCoins :
          /\ ExactWalk(WeightedQuantityCall(op, <<levels, target_coins>>).result)
          /\ Returned(WeightedQuantityCall(op, <<levels, target_coins>>))

CallEntrySpread ==
    /\ calc = <<>>
    /\ \E spot_order_book \in SpreadBooks, futures_order_book \in SpreadBooks,
          target_volume_usdt \in EntryTargets :
          /\ ExactEntrySpread(config, spot_order_book, futures_order_book, target_volume_usdt)
          /\ Returned(EntrySpreadCall(config, <<spot_order_book, futures_order_book,
                                                target_volume_usdt>>))

CallExitSpread ==
    /\ calc = <<>>
    /\ \E spot_order_book \in SpreadBooks, futures_order_book \in SpreadBooks,
          position_coins \in CalcPositionCoins :
          /\ ExactExitSpread(spot_order_book, futures_order_book, position_coins)
          /\ Returned(ExitSpreadCall(config, <<spot_order_book, futures_order_book,
                                               position_coins>>))

\* The call of method op with arguments args, and its outcome.
MethodCall(cfg, op, args) ==
    CASE op = "should_close_position" -> ShouldCloseCall(cfg, args)
      [] op = "calculate_weighted_spot_ask" -> WeightedSpotAskCall(args)
      [] op = "calculate_entry_spread" -> EntrySpreadCall(cfg, args)
      [] op = "calculate_exit_spread" -> ExitSpreadCall(cfg, args)
      [] op \in QuantityWalks -> WeightedQuantityCall(op, args)

\* The call just made is made again with the same arguments.
RepeatCall ==
    /\ Len(calc) = 1
    /\ Returned(MethodCall(config, calc[1].op, calc[1].args))

(* ------------- direct calls of the engine's entry methods -------------- *)

\* Coins of the rows the store holds when the entry methods are called
\* directly: entered at 10, they hold lot_min (2 coins) to lot_max (4 coins)
\* of notional, so the headroom of a row is a whole lot or less than one.
EnteredCoins == {c \in 1..5 : 20 <= 10 * c /\ 10 * c <= 40}

\* _check_position_increase(symbol, ...) called on the monitoring thread.
CallPositionIncrease ==
    /\ frame[MonitorThread].pc = "idle"
    /\ requests < MaxRequests
    /\ requests' = requests + 1
    /\ \E symbol \in Symbols : _check_position_increase(monitor, symbol)
    /\ UNCHANGED <<positions, adjustments, orders, config, running, cycles, calc>>

\* _execute_arbitrage_trade(symbol, ..., spread_data) called on the
\* monitoring thread without a position_id, as _check_arbitrage_opportunities
\* calls it for a pair with a trade opportunity and no open position.
CallArbitrageTrade ==
    /\ frame[MonitorThread].pc = "idle"
    /\ requests < MaxRequests
    /\ requests' = requests + 1
    /\ \E symbol \in Symbols, spot_order_book \in SpotBooks,
          futures_order_book \in FuturesBooks :
          /\ ~_has_open_position(positions, symbol, TRUE)
          /\ ~calculate_entry_spread_raises(config, spot_order_book, futures_order_book, NULL)
          /\ LET spread_data == calculate_entry_spread(config, spot_order_book,
                                                      futures_order_book, NULL)
             IN  /\ spread_data.trade_opportunity
                 /\ frame' = [frame EXCEPT ![MonitorThread] =
                                  EntryCall(symbol, spread_data, NULL)]
    /\ UNCHANGED <<positions, adjustments, orders, config, running, monitor, cycles, calc>>

(* ---------------------------- specification ---------------------------- *)

Next ==
    \/ \E t \in Threads : ExitSelect(t)
    \/ \E t \in Threads : ExitOrders(t)
    \/ \E t \in Threads : ExitCommit(t)
    \/ \E t \in Threads : EntryOrders(t)
    \/ \E t \in Threads : EntryCommit(t)
    \/ \E t \in Operators, position_id \in PositionIds, volume_coins \in 1..MaxCoins :
          execute_manual_exit_trade(t, position_id, volume_coins)
    \/ \E t \in Operators, symbol \in Symbols, volume_coins \in ManualEntryVolumes :
          execute_manual_entry_trade(t, symbol, volume_coins)

MonitorNext ==
    \/ start_monitoring
    \/ stop_monitoring
    \/ MonitorLoop
    \/ MonitorEntryPair
    \/ MonitorExitSelect
    \/ MonitorExitPosition
    \/ MonitorSleep

\* Operator requests (manual exits and entries), concurrently on two threads.
Spec == Init /\ [][Next]_vars

\* The monitoring thread.
SpecMonitor == InitMonitor /\ [][MonitorNext]_vars

\* A step of the monitoring thread itself.
MonitorThreadStep ==
    \/ MonitorLoop
    \/ MonitorEntryPair
    \/ MonitorExitSelect
    \/ MonitorExitPosition
    \/ MonitorSleep

\* The monitoring thread under a scheduler that lets a runnable thread run:
\* its calls and its sleep return, so it is not stopped forever at a step
\* it can take.
SpecMonitorFair == InitMonitor /\ [][MonitorNext]_vars /\ WF_vars(MonitorThreadStep)

\* The calculator called directly, on an engine that does nothing else.
InitCalc == InitWith(InitialStores({}, {1}), {cfg \in Configs : cfg.auto_trade})

CalcNext ==
    \/ CallShouldClosePosition
    \/ CallWeightedSpotAsk
    \/ CallWeightedQuantity
    \/ CallEntrySpread
    \/ CallExitSpread
    \/ RepeatCall

SpecCalculator == InitCalc /\ [][CalcNext]_vars

\* The entry methods of the engine called directly on the monitoring
\* thread, over a store whose rows hold lot_min to lot_max of notional.
\* The futures prices the rows of that store were sold at.
EnteredFuturesPrices == {12, 14}

\* What the INSERT of _execute_arbitrage_trade writes for an entry of c coins
\* bought at 10 and sold at futures_price.
StoredRowAt(pid, c, futures_price) ==
    InsertedRow(SymbolOf(pid),
                [tradable_volume_coins |-> c, spot_weighted_ask |-> 10,
                 futures_weighted_bid |-> futures_price,
                 entry_spread |-> (futures_price - 10) * 10])

InitIncrease ==
    /\ \E coins \in InitialStores(PositionIds, EnteredCoins),
          futures_price \in EnteredFuturesPrices :
          positions = [pid \in DOMAIN coins |-> StoredRowAt(pid, coins[pid], futures_price)]
    /\ adjustments = <<>>
    /\ orders = [o \in Sides \X Symbols |-> 0]
    /\ frame = [t \in Threads |-> IdleFrame]
    /\ requests = 0
    /\ config \in {cfg \in Configs : cfg.auto_trade}
    /\ running = FALSE
    /\ monitor = IdleMonitor
    /\ cycles = 0
    /\ calc = <<>>

IncreaseNext ==
    \/ CallPositionIncrease
    \/ CallArbitrageTrade
    \/ EntryOrders(MonitorThread)
    \/ EntryCommit(MonitorThread)

SpecIncrease == InitIncrease /\ [][IncreaseNext]_vars

(* ------- start_monitoring and stop_monitoring called concurrently ------- *)

\* The Thread objects start_monitoring may create, in the order of their
\* creation: one for each call that finds running false.
LoopThreadNames == <<"thread1", "thread2", "thread3", "thread4">>
LoopThreads == {LoopThreadNames[k] : k \in 1..MaxRequests}

\* self.monitor_thread: the Thread object created last.
monitor_thread == LoopThreadNames[monitor.threads]

\* Callers of start_monitoring and stop_monitoring are idle and no Thread
\* object exists; _monitoring_loop runs on none.
InitStartStop ==
    /\ positions \in {[pid \in S |-> StoredRow(pid, 1)] : S \in SUBSET PositionIds}
    /\ adjustments = <<>>
    /\ orders = [o \in Sides \X Symbols |-> 0]
    /\ frame = [t \in Operators \cup LoopThreads |->
                   [IdleFrame EXCEPT !.pc = IF t \in Operators THEN "idle" ELSE "unstarted"]]
    /\ requests = 0
    /\ config \in Configs
    /\ running = FALSE
    /\ monitor = IdleMonitor
    /\ cycles = 0
    /\ calc = <<>>

\* start_monitoring up to its test "if self.running": a warning and a
\* return while running, else the caller goes on to set the flag.
StartTest(t) ==
    /\ frame[t].pc = "idle"
    /\ requests < MaxRequests
    /\ requests' = requests + 1
    /\ monitor' = [monitor EXCEPT !.starts = @ + 1]
    /\ frame' = [frame EXCEPT ![t].pc = IF running THEN "idle" ELSE "start"]
    /\ UNCHANGED <<positions, adjustments, orders, config, running, cycles, calc>>

\* The rest of start_monitoring: self.running = True, a new Thread on
\* _monitoring_loop is assigned to self.monitor_thread and started.
StartThread(t) ==
    /\ frame[t].pc = "start"
    /\ running' = TRUE
    /\ monitor' = [monitor EXCEPT !.threads = @ + 1]
    /\ frame' = [frame EXCEPT ![t].pc = "idle",
                              ![LoopThreadNames[monitor.threads + 1]].pc = "loop"]
    /\ UNCHANGED <<positions, adjustments, orders, requests, config, cycles, calc>>

\* stop_monitoring up to its join: a warning and a return while not running,
\* else self.running = False and the caller joins self.monitor_thread.
StopJoin(t) ==
    /\ frame[t].pc = "idle"
    /\ requests < MaxRequests
    /\ requests' = requests + 1
    /\ IF ~running
       THEN UNCHANGED <<running, frame>>
       ELSE /\ running' = FALSE
            /\ frame' = [frame EXCEPT ![t].pc = IF monitor.threads = 0 THEN "idle" ELSE "join"]
    /\ UNCHANGED <<positions, adjustments, orders, config, monitor, cycles, calc>>

\* self.monitor_thread.join(timeout=30) returns: the thread has ended, or
\* the 30 seconds have passed while it is inside the checks of a cycle or in
\* its sleep of check_interval_seconds (60 by default).
JoinReturns(t) ==
    /\ frame[t].pc = "join"
    /\ frame[monitor_thread].pc \in {"done", "cycle", "sleep"}
    /\ frame' = [frame EXCEPT ![t].pc = "idle"]
    /\ UNCHANGED <<positions, adjustments, orders, requests, config, running, monitor, cycles,
                   calc>>

\* "while self.running:" of _monitoring_loop on thread m.
LoopWhile(m) ==
    /\ frame[m].pc = "loop"
    /\ IF ~running
       THEN frame' = [frame EXCEPT ![m].pc = "done"] /\ UNCHANGED cycles
       ELSE /\ cycles < MaxCycles
            /\ cycles' = cycles + 1
            /\ frame' = [frame EXCEPT ![m].pc = "cycle"]
    /\ UNCHANGED <<positions, adjustments, orders, requests, config, running, monitor, calc>>

\* The two checks of a cycle on thread m, whatever they do or raise.
LoopChecks(m) ==
    /\ frame[m].pc = "cycle"
    /\ frame' = [frame EXCEPT ![m].pc = "sleep"]
    /\ UNCHANGED <<positions, adjustments, orders, requests, config, running, monitor, cycles,
                   calc>>

\* time.sleep at the end of a cycle on thread m.
LoopSleep(m) ==
    /\ frame[m].pc = "sleep"
    /\ frame' = [frame EXCEPT ![m].pc = "loop"]
    /\ UNCHANGED <<positions, adjustments, orders, requests, config, running, monitor, cycles,
                   calc>>

StartStopNext ==
    \/ \E t \in Operators : StartTest(t)
    \/ \E t \in Operators : StartThread(t)
    \/ \E t \in Operators : StopJoin(t)
    \/ \E t \in Operators : JoinReturns(t)
    \/ \E m \in LoopThreads : LoopWhile(m)
    \/ \E m \in LoopThreads : LoopChecks(m)
    \/ \E m \in LoopThreads : LoopSleep(m)

SpecStartStop == InitStartStop /\ [][StartStopNext]_vars

(* ------------------------------- claims -------------------------------- *)

RECURSIVE SumCoins(_, _)
\* Coins closed by the adjustments of position pid among the rows of seq.
SumCoins(seq, pid) ==
    IF seq = <<>> THEN 0
    ELSE (IF Head(seq).position_id = pid THEN Head(seq).spot_volume_coins ELSE 0)
         + SumCoins(Tail(seq), pid)

RECURSIVE SumPnl(_, _)
\* Sum of pnl_usdt over the adjustments of position pid among the rows of seq.
SumPnl(seq, pid) ==
    IF seq = <<>> THEN 0
    ELSE (IF Head(seq).position_id = pid THEN Head(seq).pnl_usdt ELSE 0)
         + SumPnl(Tail(seq), pid)

RECURSIVE CountAdjustments(_, _)
CountAdjustments(seq, pid) ==
    IF seq = <<>> THEN 0
    ELSE (IF Head(seq).position_id = pid THEN 1 ELSE 0) + CountAdjustments(Tail(seq), pid)

\* Thread t takes a step of its _execute_exit_trade call.
ExitStep(t) == frame[t].pc \in {"exit_orders", "exit_commit"} /\ frame'[t] # frame[t]

\* C1: two exits on one position are mutually exclusive: whatever the
\* interleaving, the remaining spot coins of a position are the entered coins
\* minus the coins of all exits applied to it, and its pnl_usdt is the sum of
\* the PnL of those exits (no lost update, no double count).
C1_ExitsSerialised ==
    \A pid \in DOMAIN positions :
        /\ positions[pid].remaining_spot_coins =
               positions[pid].spot_volume_coins - SumCoins(adjustments, pid)
        /\ COALESCE(positions[pid].pnl_usdt, 0) = SumPnl(adjustments, pid)

\* C2: in every reachable state the remaining coins of each leg lie between
\* 0 and the entered coins of that leg.
C2_RemainingWithinEntered ==
    \A pid \in DOMAIN positions :
        /\ 0 <= positions[pid].remaining_spot_coins
        /\ positions[pid].remaining_spot_coins <= positions[pid].spot_volume_coins
        /\ 0 <= positions[pid].remaining_futures_coins
        /\ positions[pid].remaining_futures_coins <= positions[pid].futures_volume_coins

\* C3: an exit on a position whose status is closed fails: the step that
\* follows the read of a closed row places no order and changes neither the
\* position rows nor the adjustment trail.
C3_ClosedExitRejected ==
    [][\A t \in Threads :
          (ExitStep(t) /\ frame[t].position[1].status = "closed")
              => (orders' = orders /\ positions' = positions /\ adjustments' = adjustments)]_vars

\* C4: an exit for more coins than the position has remaining fails and
\* leaves the position unchanged: no thread commits such an exit, so no row
\* or adjustment is written for it.
C4_OverCloseRejected ==
    [][\A t \in Threads :
          (ExitStep(t) /\ frame[t].pc = "exit_commit"
             /\ frame[t].coins > frame[t].position[1].remaining_spot_coins)
              => (positions' = positions /\ adjustments' = adjustments)]_vars

\* C5: status never regresses: a closed position stays closed, and a
\* partially closed position never becomes open again.
C5_StatusNeverRegresses ==
    [][\A pid \in DOMAIN positions :
          /\ positions[pid].status = "closed" => positions'[pid].status = "closed"
          /\ positions[pid].status = "partially_closed" => positions'[pid].status # "open"]_vars

\* C6: in every reachable state a position is closed exactly when its
\* remaining spot coins are at most zero.
C6_ClosedIffNoneRemaining ==
    \A pid \in DOMAIN positions :
        positions[pid].status = "closed" <=> positions[pid].remaining_spot_coins <= 0

\* C6 witness: two exits have been committed on a position and it is closed
\* with exactly zero coins remaining.
C6_Witness ==
    \E pid \in DOMAIN positions :
        /\ positions[pid].status = "closed"
        /\ positions[pid].remaining_spot_coins = 0
        /\ CountAdjustments(adjustments, pid) = 2

\* C7: a successful exit of c coins on a position that has R remaining,
\* 0 < c <= R, leaves R - c remaining on both legs, closed when that is 0
\* and partially closed otherwise.
C7_ExitDecrementsByCoins ==
    [][\A t \in Threads :
          (ExitStep(t) /\ frame[t].pc = "exit_commit" /\ positions' # positions)
              => LET pid == frame[t].position_id[1]
                     R == positions[pid].remaining_spot_coins
                     c == frame[t].coins
                 IN  (0 < c /\ c <= R)
                         => /\ positions'[pid].remaining_spot_coins = R - c
                            /\ positions'[pid].remaining_futures_coins =
                                   positions[pid].remaining_futures_coins - c
                            /\ positions'[pid].status =
                                   IF R - c = 0 THEN "closed" ELSE "partially_closed"]_vars

\* C8: in every reachable state the pnl_usdt of the adjustments of a
\* position sum to the position's pnl_usdt (0 while it is NULL).
C8_PnlAdditive ==
    \A pid \in DOMAIN positions :
        SumPnl(adjustments, pid) = COALESCE(positions[pid].pnl_usdt, 0)

\* C8 witness: two exits that raced on one position (the remaining coins
\* show the lost update) have both been committed.
C8_Witness ==
    \E pid \in DOMAIN positions :
        /\ CountAdjustments(adjustments, pid) = 2
        /\ positions[pid].remaining_spot_coins #
               positions[pid].spot_volume_coins - SumCoins(adjustments, pid)
        /\ COALESCE(positions[pid].pnl_usdt, 0) # 0

\* C9: when the entry pass has found a trade opportunity for a pair, with
\* auto_trade set and no open or partially closed position for the symbol,
\* then once the pair has been processed an open position for the symbol
\* exists whose entered and remaining coins on both legs are the tradable
\* quantity.
C9_OpportunityOpensPosition ==
    (/\ monitor.entry_log # NULL
     /\ frame[MonitorThread].pc = "idle"
     /\ config.auto_trade
     /\ monitor.entry_log[1].spread_data.trade_opportunity
     /\ ~monitor.entry_log[1].had_open)
        => \E pid \in DOMAIN positions :
               LET q == monitor.entry_log[1].spread_data.tradable_volume_coins
               IN  /\ positions[pid].symbol = monitor.entry_log[1].symbol
                   /\ positions[pid].status = "open"
                   /\ positions[pid].spot_volume_coins = q
                   /\ positions[pid].futures_volume_coins = q
                   /\ positions[pid].remaining_spot_coins = q
                   /\ positions[pid].remaining_futures_coins = q

\* C10: when the exit pass of a cycle has processed a position for which
\* should_close_position, evaluated on the books fetched for it at its
\* remaining spot coins, says to close, and auto_trade is set, then an exit
\* of that position has been started in that cycle.
C10_CloseOpportunityExits ==
    (/\ monitor.pc = "sleep"
     /\ monitor.exit_log # NULL
     /\ config.auto_trade
     /\ LET l == monitor.exit_log[1]
        IN  /\ ~calculate_exit_spread_raises(l.spot_order_book, l.futures_order_book,
                                             l.remaining_coins)
            /\ should_close_position(config, l.position_id, l.remaining_coins,
                                     l.spot_order_book, l.futures_order_book,
                                     l.min_trade_amount)[1])
        => monitor.exit_log[1].position_id \in monitor.called

\* Every configured pair is processed in every cycle, in the configured
\* order, whatever happened to the pairs before it.
PairLoopCoversEveryPair ==
    monitor.pc = "exit_select"
        => /\ Len(monitor.pair_log) = Len(config.TRADING_PAIRS)
           /\ \A k \in 1..Len(monitor.pair_log) :
                  monitor.pair_log[k].symbol = config.TRADING_PAIRS[k]

\* C11: per-pair failure isolation.  When the entry pass of a cycle is over,
\* every configured pair has been processed in it (so a pair that failed
\* in an earlier cycle is processed again), and in a cycle where the
\* processing of some pair raised, every other pair that was evaluated and
\* for which a trade applied has been traded, whatever their order.
C11_PairFailureIsolated ==
    /\ PairLoopCoversEveryPair
    /\ monitor.pc = "exit_select"
           => \A a, b \in 1..Len(monitor.pair_log) :
                  (/\ a # b
                   /\ monitor.pair_log[a].outcome # "evaluated"
                   /\ monitor.pair_log[b].outcome = "evaluated"
                   /\ monitor.pair_log[b].applicable)
                      => monitor.pair_log[b].traded
\* C12: per-position failure isolation.  When the exit pass of a cycle is
\* over, every open or partially closed position its SELECT returned has
\* been processed, also when the processing of one of them raised.
C12_PositionFailureIsolated ==
    monitor.pc = "sleep" => monitor.todo = <<>>
C15_StartStopIdempotent ==
    [][requests' = requests + 1
          => /\ (running = running')
                    => /\ [monitor' EXCEPT !.starts = monitor.starts] = monitor
                       /\ UNCHANGED <<positions, adjustments, orders, frame, config, cycles,
                                      calc>>
             /\ monitor'.starts >= 1 => monitor'.threads = 1]_vars

\* C15 witness: start_monitoring has been called twice in a row and the
\* monitor runs on one thread.
C15_Witness ==
    /\ monitor.starts = 2
    /\ requests = 2
    /\ running
    /\ monitor.threads = 1
\* C16: after stop_monitoring the monitoring loop finishes its cycle and
\* ends.  The stop itself leaves the thread and the work of its cycle as
\* they are; no cycle begins while running is false; the thread ends only
\* at the test of its loop, never in the middle of a cycle; and once
\* running is false the thread eventually ends.
C16_StopEndsLoopAfterCycle ==
    /\ [][(running /\ ~running') => UNCHANGED <<monitor, frame, cycles>>]_vars
    /\ [][~running => cycles' = cycles]_vars
    /\ [][(monitor'.pc = "done" /\ monitor.pc # "done") => monitor.pc = "loop"]_vars
    /\ (~running /\ monitor.threads = 1) ~> (monitor.pc = "done")

\* C16 witness: stop_monitoring was called in the middle of a cycle and the
\* thread has ended after finishing that cycle.
C16_Witness ==
    /\ monitor.pc = "done"
    /\ ~running
    /\ cycles >= 1
    /\ requests = 2
    /\ monitor.starts = 1

\* The should_close_position calls that returned, among the calls made.
ShouldCloseReturns ==
    {i \in 1..Len(calc) : calc[i].op = "should_close_position" /\ ~calc[i].raised}

\* min(remaining, tradable), escalated to remaining when the remainder it
\* would leave is below min_trade_amount.
SizedCoins(remaining, tradable, min_trade_amount) ==
    LET capped == IF remaining <= tradable THEN remaining ELSE tradable
    IN  IF remaining - capped < min_trade_amount THEN remaining ELSE capped

\* C17: should_close sizing: when close_opportunity is true and the sized
\* quantity is positive, the call returns true with coins_to_close =
\* min(remaining coins, tradable volume), escalated to the full remaining
\* coins whenever remaining - coins_to_close < min_trade_amount; remaining
\* 10, min_trade_amount 5, tradable volume 7 gives (true, 10).
C17_CloseSizing ==
    \A i \in ShouldCloseReturns :
        LET remaining == calc[i].args[2]
            min_trade_amount == calc[i].args[5]
            exit_data == calc[i].result[3]
            sized == SizedCoins(remaining, exit_data.tradable_volume_coins, min_trade_amount)
        IN  /\ (exit_data.close_opportunity /\ sized > 0)
                   => (calc[i].result[1] /\ calc[i].result[2] = sized)
            /\ (/\ exit_data.close_opportunity
                /\ remaining = 10
                /\ min_trade_amount = 5
                /\ exit_data.tradable_volume_coins = 7)
                   => (calc[i].result[1] /\ calc[i].result[2] = 10)

\* A call with remaining 10, min_trade_amount 5 and tradable volume 7 on a
\* close opportunity returned (true, 10).
C17_Witness ==
    \E i \in ShouldCloseReturns :
        /\ calc[i].args[2] = 10
        /\ calc[i].args[5] = 5
        /\ calc[i].result[3].tradable_volume_coins = 7
        /\ calc[i].result[3].close_opportunity
        /\ calc[i].result[1]
        /\ calc[i].result[2] = 10

\* C18: should_close returns (false, 0) whenever close_opportunity is false
\* and whenever the sized coins_to_close is <= 0; it returns true only with
\* a strictly positive coins_to_close.
C18_NoCloseReturnsFalseZero ==
    \A i \in ShouldCloseReturns :
        LET exit_data == calc[i].result[3]
            sized == SizedCoins(calc[i].args[2], exit_data.tradable_volume_coins,
                                calc[i].args[5])
        IN  /\ ~exit_data.close_opportunity => (~calc[i].result[1] /\ calc[i].result[2] = 0)
            /\ sized <= 0 => (~calc[i].result[1] /\ calc[i].result[2] = 0)
            /\ calc[i].result[1] => calc[i].result[2] > 0

\* A call on a close opportunity whose sized quantity is not positive
\* returned (false, 0).
C18_Witness ==
    \E i \in ShouldCloseReturns :
        /\ calc[i].result[3].close_opportunity
        /\ SizedCoins(calc[i].args[2], calc[i].result[3].tradable_volume_coins,
                      calc[i].args[5]) <= 0
        /\ ~calc[i].result[1]
        /\ calc[i].result[2] = 0

SpotAskCalls == {i \in 1..Len(calc) : calc[i].op = "calculate_weighted_spot_ask"}

\* C20: walk_by_notional (calculate_weighted_spot_ask): for any level list
\* and any target_notional with 0 < target_notional <= sum of the level
\* notionals, the filled notional equals target_notional and equals
\* weighted price * filled quantity; every level before the stopping level
\* is consumed in full and the stopping level fractionally (the part of it
\* whose notional is what was left of the target).
C20_WalkReachesTarget ==
    \A i \in SpotAskCalls :
        LET levels == calc[i].args[1]
            target == calc[i].args[2]
            r == calc[i].result
            k == FullLevels(levels, target)
            before == SubSeq(levels, 1, k)
        IN  (0 < target /\ target <= Notional(levels))
               => /\ r.usdt = target
                  /\ r.price * r.coins = r.usdt
                  /\ IF k = Len(levels)
                     THEN r.coins = Volume(levels)
                     ELSE /\ r.coins >= Volume(before)
                          /\ r.coins - Volume(before) < levels[k + 1][2]
                          /\ (r.coins - Volume(before)) * levels[k + 1][1]
                                 = target - Notional(before)

\* A walk over asks of two prices that took its first level entirely and a
\* part of a later one, and filled its target.
C20_Witness ==
    \E i \in SpotAskCalls :
        LET levels == calc[i].args[1]
            target == calc[i].args[2]
            k == FullLevels(levels, target)
        IN  /\ 1 <= k
            /\ k < Len(levels)
            /\ levels[1][1] # levels[k + 1][1]
            /\ target > Notional(SubSeq(levels, 1, k))
            /\ calc[i].result.usdt = target
            /\ calc[i].result.coins > Volume(SubSeq(levels, 1, k))

\* C21: walk_by_notional with target_notional greater than the total
\* notional of all levels returns filled_notional equal to the sum of the
\* level notionals and filled_quantity equal to the sum of the level
\* quantities, without raising.
C21_ShortfallFillsWholeBook ==
    \A i \in SpotAskCalls :
        calc[i].args[2] > Notional(calc[i].args[1])
            => /\ ~calc[i].raised
               /\ calc[i].result.usdt = Notional(calc[i].args[1])
               /\ calc[i].result.coins = Volume(calc[i].args[1])

\* A walk over asks of two prices whose target exceeded what they hold
\* returned the whole book.
C21_Witness ==
    \E i \in SpotAskCalls :
        LET levels == calc[i].args[1]
        IN  /\ Len(levels) >= 2
            /\ levels[1][1] # levels[2][1]
            /\ calc[i].args[2] > Notional(levels)
            /\ calc[i].result.usdt = Notional(levels)
            /\ calc[i].result.coins = Volume(levels)

\* C22: walk_by_notional returns the zero result (weighted price 0, filled
\* quantity 0, filled notional 0) for every target_notional <= 0, strictly
\* negative targets with non-empty levels included, and for every empty
\* level list; filled quantity and filled notional are never negative.
C22_ZeroForNonPositiveTarget ==
    \A i \in SpotAskCalls :
        /\ (calc[i].args[2] <= 0 \/ calc[i].args[1] = <<>>) => calc[i].result = ZeroWalk
        /\ calc[i].result.coins >= 0
        /\ calc[i].result.usdt >= 0

\* The calculate_entry_spread calls among the calls made, and those of them
\* that returned.
EntrySpreadCalls == {i \in 1..Len(calc) : calc[i].op = "calculate_entry_spread"}
EntrySpreadReturns == {i \in EntrySpreadCalls : ~calc[i].raised}

\* The notional walk of the spot asks that call i asks for.
SpotWalkOf(i) ==
    calculate_weighted_spot_ask(calc[i].args[1].asks, EntryTarget(config, calc[i].args[3]))

\* C23: compute_entry (calculate_entry_spread) with spot asks that yield
\* zero achievable quantity Q (no ask depth, or a zero target) returns a
\* result with entry_spread = 0 and trade_opportunity = false instead of
\* raising a division-by-zero or index error.
C23_ZeroQuantityGuarded ==
    \A i \in EntrySpreadCalls :
        SpotWalkOf(i).coins = 0
            => /\ ~calc[i].raised
               /\ calc[i].result.entry_spread = 0
               /\ ~calc[i].result.trade_opportunity

\* C24: compute_entry result: entry_spread = (futures_weighted_bid -
\* spot_weighted_ask) / spot_weighted_ask * 100, where spot_weighted_ask is
\* the notional walk of the spot asks and futures_weighted_bid the quantity
\* walk of the futures bids over the spot walk's filled quantity;
\* trade_opportunity is true exactly when entry_spread is strictly greater
\* than spread_in; with a first level on each leg deep enough for the whole
\* target the spread is the spread of the best prices.
C24_EntrySpreadFormula ==
    \A i \in EntrySpreadReturns :
        LET spot_order_book == calc[i].args[1]
            futures_order_book == calc[i].args[2]
            target == EntryTarget(config, calc[i].args[3])
            walk == SpotWalkOf(i)
            bid == calculate_weighted_futures_bid(futures_order_book.bids, walk.coins)
            r == calc[i].result
        IN  /\ r.spot_weighted_ask = walk.price
            /\ r.futures_weighted_bid = bid.price
            /\ r.entry_spread * walk.price = (bid.price - walk.price) * 100
            /\ r.trade_opportunity <=> r.entry_spread > config.spread_in
            /\ (/\ target > 0
                /\ spot_order_book.asks[1][1] * spot_order_book.asks[1][2] >= target
                /\ futures_order_book.bids[1][2] >= walk.coins)
                   => r.entry_spread * spot_order_book.asks[1][1]
                          = (futures_order_book.bids[1][1] - spot_order_book.asks[1][1]) * 100

\* A call whose first levels held the whole target returned an entry spread
\* equal to spread_in and no trade opportunity.
C24_Witness ==
    \E i \in EntrySpreadReturns :
        /\ EntryTarget(config, calc[i].args[3]) > 0
        /\ calc[i].args[1].asks[1][1] * calc[i].args[1].asks[1][2]
               >= EntryTarget(config, calc[i].args[3])
        /\ calc[i].args[2].bids[1][2] >= SpotWalkOf(i).coins
        /\ calc[i].result.entry_spread = config.spread_in
        /\ ~calc[i].result.trade_opportunity

\* The calculate_exit_spread calls among the calls made, and those of them
\* that returned.
ExitSpreadCalls == {i \in 1..Len(calc) : calc[i].op = "calculate_exit_spread"}
ExitSpreadReturns == {i \in ExitSpreadCalls : ~calc[i].raised}

\* C25: compute_exit result: exit_spread = (spot_weighted_bid -
\* futures_weighted_ask) / futures_weighted_ask * 100 with both legs walked
\* by quantity over position_coins, and close_opportunity is true exactly
\* when exit_spread is strictly greater than spread_out.
C25_ExitSpreadFormula ==
    \A i \in ExitSpreadReturns :
        LET spot == calculate_weighted_spot_bid(calc[i].args[1].bids, calc[i].args[3])
            futures == calculate_weighted_futures_ask(calc[i].args[2].asks, calc[i].args[3])
            r == calc[i].result
        IN  /\ r.spot_weighted_bid = spot.price
            /\ r.futures_weighted_ask = futures.price
            /\ r.exit_spread * futures.price = (spot.price - futures.price) * 100
            /\ r.close_opportunity <=> r.exit_spread > config.spread_out

\* A call for a positive quantity returned an exit spread equal to
\* spread_out and no close opportunity.
C25_Witness ==
    \E i \in ExitSpreadReturns :
        /\ calc[i].args[3] > 0
        /\ calc[i].result.exit_spread = config.spread_out
        /\ ~calc[i].result.close_opportunity

\* C26: compute_exit reports tradable_volume = min(filled quantity of the
\* spot-bid walk, filled quantity of the futures-ask walk), so
\* tradable_volume never exceeds position_coins nor the total depth of
\* either leg.
C26_TradableIsMinOfLegs ==
    \A i \in ExitSpreadReturns :
        LET spot == calculate_weighted_spot_bid(calc[i].args[1].bids, calc[i].args[3])
            futures == calculate_weighted_futures_ask(calc[i].args[2].asks, calc[i].args[3])
            tradable == calc[i].result.tradable_volume_coins
        IN  /\ tradable = Min(spot.coins, futures.coins)
            /\ tradable <= calc[i].args[3]
            /\ tradable <= Volume(calc[i].args[1].bids)
            /\ tradable <= Volume(calc[i].args[2].asks)

\* A call for more coins than the futures asks hold, over spot bids that
\* hold more than the futures asks: the tradable volume is the depth of the
\* futures asks.
C26_Witness ==
    \E i \in ExitSpreadReturns :
        /\ Volume(calc[i].args[2].asks) < calc[i].args[3]
        /\ Volume(calc[i].args[2].asks) < Volume(calc[i].args[1].bids)
        /\ calc[i].result.tradable_volume_coins = Volume(calc[i].args[2].asks)

\* C27: insufficient liquidity is never an error: for every order book,
\* one whose futures asks or spot bids are empty or shallower than the
\* requested quantity included, compute_entry and compute_exit (called for
\* a positive target or quantity) return a result, with a false
\* opportunity flag when the threshold is not cleared, rather than raising.
C27_ShortfallNeverRaises ==
    /\ \A i \in ExitSpreadCalls :
          calc[i].args[3] > 0
              => /\ ~calc[i].raised
                 /\ calc[i].result.exit_spread <= config.spread_out
                        => ~calc[i].result.close_opportunity
    /\ \A i \in EntrySpreadCalls :
          (EntryTarget(config, calc[i].args[3]) > 0 /\ calc[i].args[1].asks # <<>>)
              => /\ ~calc[i].raised
                 /\ calc[i].result.entry_spread <= config.spread_in
                        => ~calc[i].result.trade_opportunity

\* A book is well formed when its ask prices do not decrease, its bid
\* prices do not increase and every price and quantity is positive.
WellFormed(book) ==
    /\ \A k \in 1..(Len(book.asks) - 1) : book.asks[k][1] <= book.asks[k + 1][1]
    /\ \A k \in 1..(Len(book.bids) - 1) : book.bids[k][1] >= book.bids[k + 1][1]
    /\ \A k \in 1..Len(book.asks) : book.asks[k][1] > 0 /\ book.asks[k][2] > 0
    /\ \A k \in 1..Len(book.bids) : book.bids[k][1] > 0 /\ book.bids[k][2] > 0

\* C28: a malformed order book (ask prices not non-decreasing, bid prices
\* not non-increasing, or a level with non-positive price or quantity) is
\* rejected before any spread is computed: no spread result and no
\* opportunity flag is produced from it.
C28_MalformedBookRejected ==
    \A i \in EntrySpreadCalls \cup ExitSpreadCalls :
        (~WellFormed(calc[i].args[1]) \/ ~WellFormed(calc[i].args[2])) => calc[i].raised

\* C29: a position's entered spot notional (spot_volume_usdt) never exceeds
\* lot_max after any sequence of opens and increases made by the scheduler's
\* methods: an increase is performed only when current notional + added
\* notional <= lot_max, and a row without room for it is left as it is.
C29_NotionalWithinLotMax ==
    /\ [](\A pid \in DOMAIN positions : positions[pid].spot_volume_usdt <= config.lot_max)
    /\ [][\A pid \in DOMAIN positions :
             positions[pid].spot_volume_usdt + config.lot_min > config.lot_max
                 => positions'[pid] = positions[pid]]_vars

\* An increase was executed for a row (only an increase buys the symbol of
\* a row that is open) and brought its notional to lot_max.
C29_Witness ==
    /\ frame[MonitorThread].notified = Some("executed")
    /\ \E pid \in DOMAIN positions :
          /\ orders[<<"spot_buy", positions[pid].symbol>>] >= 1
          /\ positions[pid].spot_volume_usdt = config.lot_max

\* C30: every successful increase of a position adds the traded coins and
\* notional to both the entered and the remaining volumes of both legs,
\* leaves status unchanged, and appends exactly one adjustment record to
\* the position's adjustment trail.
C30_IncreaseAdditiveAndRecorded ==
    [][\A pid \in DOMAIN positions :
          positions'[pid].spot_volume_coins > positions[pid].spot_volume_coins
              => LET coins == frame[MonitorThread].coins
                     data == frame[MonitorThread].data[1]
                 IN  /\ positions'[pid].spot_volume_coins
                            = positions[pid].spot_volume_coins + coins
                     /\ positions'[pid].futures_volume_coins
                            = positions[pid].futures_volume_coins + coins
                     /\ positions'[pid].remaining_spot_coins
                            = positions[pid].remaining_spot_coins + coins
                     /\ positions'[pid].remaining_futures_coins
                            = positions[pid].remaining_futures_coins + coins
                     /\ positions'[pid].spot_volume_usdt
                            = positions[pid].spot_volume_usdt + coins * data.spot_weighted_ask
                     /\ positions'[pid].futures_volume_usdt
                            = positions[pid].futures_volume_usdt
                                  + coins * data.futures_weighted_bid
                     /\ positions'[pid].status = positions[pid].status
                     /\ CountAdjustments(adjustments', pid)
                            = CountAdjustments(adjustments, pid) + 1]_vars

\* C31: a notification is emitted for every detected entry opportunity and
\* every detected exit opportunity, whether auto-trade is enabled or not:
\* an iteration of the monitoring cycle whose computed entry spread is a
\* trade opportunity goes through the notification call.
C31_OpportunityNotified ==
    (monitor.entry_log # NULL /\ monitor.entry_log[1].spread_data.trade_opportunity)
        => monitor.entry_log[1].notified

\* C32: when the exchange orders of an entry or exit were acknowledged and
\* persisting the resulting position update fails, the write is retried
\* and the trade is not given up on a failed write without escalation: a
\* trade whose orders were acknowledged leaves its write step only with
\* the ledger updated, never after a write that left the ledger as it was.
C32_AcknowledgedOrdersReachLedger ==
    [][\A t \in Threads :
          (frame[t].pc \in {"entry_commit", "exit_commit"} /\ frame'[t].pc = "idle")
              => (positions' # positions \/ adjustments' # adjustments)]_vars

\* C33: the PnL delta recorded by an exit of c coins equals
\* (c * spot_exit_price - (spot_volume_usdt / spot_volume_coins) * c)
\* + ((futures_volume_usdt / futures_volume_coins) * c - c * futures_exit_price),
\* with the position's cumulative entered notional and coins as the cost
\* basis, and the position's pnl_usdt is increased by exactly that delta.
C33_ExitPnlDelta ==
    [][\A t \in Threads :
          (frame[t].pc = "exit_commit" /\ frame'[t].pc = "idle" /\ adjustments' # adjustments)
              => LET pid == frame[t].position_id[1]
                     c == frame[t].coins
                     row == positions[pid]
                     spot_exit_price == frame[t].data[1].spot_weighted_bid
                     futures_exit_price == frame[t].data[1].futures_weighted_ask
                     delta ==
                         (c * spot_exit_price
                              - (row.spot_volume_usdt \div row.spot_volume_coins) * c)
                         + ((row.futures_volume_usdt \div row.futures_volume_coins) * c
                              - c * futures_exit_price)
                 IN  /\ adjustments'[Len(adjustments')].position_id = pid
                     /\ adjustments'[Len(adjustments')].pnl_usdt = delta
                     /\ COALESCE(positions'[pid].pnl_usdt, 0)
                            = COALESCE(row.pnl_usdt, 0) + delta]_vars

\* An exit has been committed whose recorded PnL is not zero.
C33_Witness ==
    /\ adjustments # <<>>
    /\ adjustments[Len(adjustments)].pnl_usdt # 0
    /\ \E t \in Threads : frame[t].notified = Some("executed")

RECURSIVE ConsumedNotional(_, _)
\* Sum of price * consumed quantity over levels taken in the given order
\* until quantity coins are consumed.
ConsumedNotional(levels, quantity) ==
    IF levels = <<>> \/ quantity <= 0
    THEN 0
    ELSE LET taken == Min(levels[1][2], quantity)
         IN  levels[1][1] * taken + ConsumedNotional(Tail(levels), quantity - taken)

\* The calls of the three quantity walks made so far.
QuantityWalkCalls == {i \in 1..Len(calc) : calc[i].op \in QuantityWalks}

\* C34: a quantity walk (calculate_weighted_futures_bid / spot_bid /
\* futures_ask) over any level list and a target quantity > 0 fills
\* min(target, sum of level quantities), its notional is the sum of
\* price * consumed quantity over the levels consumed in the given order, its
\* weighted price is notional / quantity, and a shortfall shows as a filled
\* quantity below the target, never as an error.
C34_QuantityWalk ==
    \A i \in QuantityWalkCalls :
        LET levels == calc[i].args[1]
            target_quantity == calc[i].args[2]
            r == calc[i].result
        IN  target_quantity > 0
                => /\ ~calc[i].raised
                   /\ r.coins = Min(target_quantity, Volume(levels))
                   /\ r.usdt = ConsumedNotional(levels, target_quantity)
                   /\ r.coins > 0 => r.price * r.coins = r.usdt
                   /\ (r.coins < target_quantity) <=> (Volume(levels) < target_quantity)

\* A walk over two levels at different prices has stopped inside the second
\* one.
C34_Witness ==
    \E i \in QuantityWalkCalls :
        /\ Len(calc[i].args[1]) >= 2
        /\ calc[i].args[1][1][1] # calc[i].args[1][2][1]
        /\ calc[i].args[1][1][2] < calc[i].args[2]
        /\ calc[i].args[2] < calc[i].args[1][1][2] + calc[i].args[1][2][2]
        /\ calc[i].result.coins = calc[i].args[2]

\* The conditions under which the row may be increased with spread_data: it
\* is not terminal, its entered notional is below lot_max, the headroom is at
\* least lot_min, and spread_data is the entry spread of some fetched books
\* at the headroom notional and is a trade opportunity.
IncreaseAllowed(row, spread_data) ==
    /\ row.status \in {"open", "partially_closed"}
    /\ row.spot_volume_usdt < config.lot_max
    /\ config.lot_max - row.spot_volume_usdt >= config.lot_min
    /\ spread_data.trade_opportunity
    /\ \E spot_order_book \in SpotBooks, futures_order_book \in FuturesBooks :
          /\ ~calculate_entry_spread_raises(config, spot_order_book, futures_order_book,
                                            Some(config.lot_max - row.spot_volume_usdt))
          /\ spread_data = calculate_entry_spread(config, spot_order_book, futures_order_book,
                                                  Some(config.lot_max - row.spot_volume_usdt))

\* The monitoring thread is inside _execute_arbitrage_trade for the row pid.
Increasing(pid) ==
    /\ frame[MonitorThread].pc \in {"entry_orders", "entry_commit"}
    /\ frame[MonitorThread].position_id = Some(pid)

\* C35: the scheduler increases an existing non-terminal position only when
\* its entered notional is below lot_max, the headroom lot_max - current
\* notional is at least lot_min, and the entry spread recomputed on freshly
\* fetched books at the headroom notional is still a trade opportunity;
\* otherwise the position is left unchanged and no order is placed.
C35_IncreaseOnlyWhenAllowed ==
    [][\A pid \in DOMAIN positions :
          /\ Increasing(pid)' => IncreaseAllowed(positions[pid], frame'[MonitorThread].data[1])
          /\ positions'[pid] # positions[pid]
                 => Increasing(pid)
                    /\ IncreaseAllowed(positions[pid], frame[MonitorThread].data[1])
          /\ (orders[<<"spot_buy", positions[pid].symbol>>]
                    # orders'[<<"spot_buy", positions[pid].symbol>>]
               \/ orders[<<"futures_sell", positions[pid].symbol>>]
                    # orders'[<<"futures_sell", positions[pid].symbol>>])
                 => Increasing(pid)
                    /\ IncreaseAllowed(positions[pid], frame[MonitorThread].data[1])]_vars

\* Both orders of an increase by the headroom of a row have been placed.
C35_Witness ==
    \E pid \in DOMAIN positions :
        /\ frame[MonitorThread].pc = "entry_commit"
        /\ frame[MonitorThread].position_id = Some(pid)
        /\ frame[MonitorThread].data[1].tradable_volume_usdt
               = config.lot_max - positions[pid].spot_volume_usdt
        /\ orders[<<"futures_sell", positions[pid].symbol>>] >= 1

\* C36: with auto_trade disabled, any number of monitoring cycles places no
\* exchange order and leaves every position row and the adjustment trail
\* unchanged, whatever the order books show: the monitoring thread enters
\* neither _execute_arbitrage_trade nor _execute_exit_trade, the only two
\* methods it places orders and writes rows in.
C36_AutoTradeOffIsPassive ==
    [][~config.auto_trade
          => /\ frame'[MonitorThread].pc = "idle"
             /\ orders' = orders
             /\ positions' = positions
             /\ adjustments' = adjustments]_vars

\* With auto_trade disabled and a position in the store, the entry pass of a
\* cycle after the first has evaluated a pair whose books show a trade
\* opportunity.
C36_Witness ==
    /\ ~config.auto_trade
    /\ DOMAIN positions # {}
    /\ cycles >= 1
    /\ monitor.entry_log # NULL
    /\ monitor.entry_log[1].spread_data.trade_opportunity

\* The threads that are inside a cycle of _monitoring_loop.
InCycle == {m \in DOMAIN frame \ Threads : frame[m].pc = "cycle"}

\* C37: at most one monitoring thread executes the monitoring loop at any
\* time, for every sequence and interleaving of start_monitoring and
\* stop_monitoring calls: neither a stop followed by a start while the
\* previous thread is still in a cycle or sleeping, nor two concurrent starts,
\* leave two threads running cycles.
C37_OneLoopThread == Cardinality(InCycle) <= 1

\* C38: the two legs of a position stay matched: in every reachable state
\* remaining_spot_coins = remaining_futures_coins and spot_volume_coins =
\* futures_volume_coins, because every entry, increase and exit applies the
\* same coin quantity to both legs.
C38_LegsMatched ==
    \A pid \in DOMAIN positions :
        /\ positions[pid].remaining_spot_coins = positions[pid].remaining_futures_coins
        /\ positions[pid].spot_volume_coins = positions[pid].futures_volume_coins

\* A row some of whose coins an exit has closed.
C38_Witness ==
    \E pid \in DOMAIN positions :
        /\ positions[pid].status = "partially_closed"
        /\ 0 < positions[pid].remaining_futures_coins
        /\ positions[pid].remaining_futures_coins < positions[pid].futures_volume_coins
        /\ \E k \in 1..Len(adjustments) : adjustments[k].position_id = pid

\* C39: the quantity an entry trades on both legs (tradable_volume_coins of
\* the entry result, used for the spot buy and the futures sell) never
\* exceeds the quantity the futures-bid walk could fill: when the futures bid
\* depth is smaller than the spot-side quantity, the entry is sized down or
\* not taken.
C39_EntryWithinFuturesDepth ==
    \A i \in EntrySpreadReturns :
        calc[i].result.trade_opportunity
            => calc[i].result.tradable_volume_coins <= Volume(calc[i].args[2].bids)

\* C40: a position's stored average entry prices stay consistent with its
\* entered volumes: in every reachable state with entered coins > 0,
\* spot_avg_price = spot_volume_usdt / spot_volume_coins and
\* futures_avg_price = futures_volume_usdt / futures_volume_coins, also after
\* an increase executed at another price than the opening trade.
C40_AvgPricesMatchVolumes ==
    \A pid \in DOMAIN positions :
        positions[pid].spot_volume_coins > 0
            => /\ positions[pid].spot_avg_price * positions[pid].spot_volume_coins
                      = positions[pid].spot_volume_usdt
               /\ positions[pid].futures_avg_price * positions[pid].futures_volume_coins
                      = positions[pid].futures_volume_usdt


====
